---- MODULE Spec2Model ----
(***************************************************************************)
(* web-stack-scan: the signature-matching and confidence-scoring engine    *)
(* (detectFrameworks, detectAnalytics and their helpers).                  *)
(*                                                                         *)
(* Strings are TLA+ strings, read character by character with SubSeq.      *)
(* A position in a string is the number of characters before it (0..Len).  *)
(* An optional value (version?: string, evidence?: string) is None when    *)
(* undefined and Some(v) otherwise.                                        *)
(***************************************************************************)
EXTENDS Integers, Sequences, FiniteSets, TLC

None == <<>>
Some(v) == <<v>>

Min(S) == CHOOSE x \in S : \A y \in S : x <= y

(***************************************************************************)
(* String primitives of the runtime (ASCII).                               *)
(***************************************************************************)
CharAt(s, k) == SubSeq(s, k, k)

Uppers == "ABCDEFGHIJKLMNOPQRSTUVWXYZ"
Lowers == "abcdefghijklmnopqrstuvwxyz"
Digits == "0123456789"

CharsOf(s) == { CharAt(s, k) : k \in 1..Len(s) }

UpperSet == CharsOf(Uppers)
LowerSet == CharsOf(Lowers)
DigitSet == CharsOf(Digits)
\* \w of a regular expression
WordSet == UpperSet \cup LowerSet \cup DigitSet \cup {"_"}
\* what String.prototype.trim strips
WhiteSpace == {" ", "\t", "\n", "\r"}
\* what . of a regular expression does not match
LineTerminators == {"\n", "\r"}

LowerMap ==
  [c \in UpperSet |-> CharAt(Lowers, CHOOSE k \in 1..Len(Uppers) : CharAt(Uppers, k) = c)]

LowerChar(c) == IF c \in UpperSet THEN LowerMap[c] ELSE c

RECURSIVE LowerFrom(_, _)
LowerFrom(s, k) ==
  IF k > Len(s) THEN "" ELSE LowerChar(CharAt(s, k)) \o LowerFrom(s, k + 1)

\* String.prototype.toLowerCase
ToLowerCase(s) == LowerFrom(s, 1)

\* String.prototype.trim
Trim(s) ==
  LET keep == { k \in 1..Len(s) : CharAt(s, k) \notin WhiteSpace }
  IN  IF keep = {} THEN ""
      ELSE SubSeq(s, Min(keep), CHOOSE k \in keep : \A j \in keep : j <= k)

\* String.prototype.indexOf as a position, -1 when absent
IndexOf(s, lit) ==
  LET at == { i \in 0..(Len(s) - Len(lit)) : SubSeq(s, i + 1, i + Len(lit)) = lit }
  IN  IF at = {} THEN -1 ELSE Min(at)

\* String.prototype.includes
Includes(s, lit) == IndexOf(s, lit) # -1

\* String.prototype.slice(start, end) for 0 <= start, end <= length
Slice(s, start, end) == IF end <= start THEN "" ELSE SubSeq(s, start + 1, end)

(***************************************************************************)
(* Regular expressions of the catalog, as a backtracking matcher.          *)
(* A regular expression is [atoms, i, g]: a sequence of atoms, the         *)
(* ignore-case flag and the global flag. Atoms:                            *)
(*   L(s)            the characters of s                                   *)
(*   WB              \b                                                    *)
(*   Cls(S,neg,m,n)  a character of S (not of S when neg), m to n times,   *)
(*                   greedy; n = -1 is no upper limit                      *)
(*   Alt(as)         (a1|a2|...) each ai a sequence of atoms               *)
(*   Open, Close     the parentheses of capture group 1                    *)
(* Ends lists, in the order a backtracking engine tries them, the          *)
(* outcomes <<end, groupStart, groupEnd>> of matching atoms k.. at         *)
(* position i.                                                             *)
(* A RegExp object is shared by every call, and its lastIndex property is  *)
(* the one piece of the catalog a search can read and write: test and exec *)
(* start at lastIndex and store the end of the match there when, and only  *)
(* when, the expression carries the g (or y) flag. lastIndex holds that    *)
(* property for every expression of the catalog.                           *)
(***************************************************************************)
VARIABLE lastIndex

L(s) == [t |-> "lit", s |-> s]
WB == [t |-> "wb"]
Cls(S, neg, m, n) == [t |-> "cls", set |-> S, neg |-> neg, min |-> m, max |-> n]
Alt(as) == [t |-> "alt", alts |-> as]
Open == [t |-> "open"]
Close == [t |-> "close"]

\* /.../
Re(atoms) == [atoms |-> atoms, i |-> FALSE, g |-> FALSE]

\* mutant: the literal written with the g flag, /.../gi
ReIGlobal(atoms) == [atoms |-> atoms, i |-> TRUE, g |-> TRUE]

\* /.../i
ReI(atoms) == [atoms |-> atoms, i |-> TRUE, g |-> FALSE]

\* \d+  \d*  \d  \w+  .+  .*
DigitPlus == Cls(DigitSet, FALSE, 1, -1)
DigitStar == Cls(DigitSet, FALSE, 0, -1)
Digit1 == Cls(DigitSet, FALSE, 1, 1)
WordPlus == Cls(WordSet, FALSE, 1, -1)
AnyPlus == Cls(LineTerminators, TRUE, 1, -1)
AnyStar == Cls(LineTerminators, TRUE, 0, -1)

IsWordAt(s, k) == k >= 1 /\ k <= Len(s) /\ CharAt(s, k) \in WordSet

\* \b holds at position i
IsBoundary(s, i) == IsWordAt(s, i) # IsWordAt(s, i + 1)

InClass(c, a) == (c \in a.set) # a.neg

\* the longest run of characters of the class from position i, at most a.max
RECURSIVE Run(_, _, _, _)
Run(a, s, i, n) ==
  IF (a.max # -1 /\ n >= a.max) \/ i + n >= Len(s) THEN n
  ELSE IF InClass(CharAt(s, i + n + 1), a) THEN Run(a, s, i, n + 1)
  ELSE n

RECURSIVE Ends(_, _, _, _, _, _)
RECURSIVE EndsCls(_, _, _, _, _, _, _)
RECURSIVE EndsAlt(_, _, _, _, _, _, _)
RECURSIVE EndsEach(_, _, _, _)

Ends(atoms, k, s, i, cs, ce) ==
  IF k > Len(atoms) THEN << <<i, cs, ce>> >>
  ELSE LET a == atoms[k] IN
    CASE a.t = "lit" ->
           IF i + Len(a.s) <= Len(s) /\ SubSeq(s, i + 1, i + Len(a.s)) = a.s
           THEN Ends(atoms, k + 1, s, i + Len(a.s), cs, ce)
           ELSE << >>
      [] a.t = "wb" ->
           IF IsBoundary(s, i) THEN Ends(atoms, k + 1, s, i, cs, ce) ELSE << >>
      [] a.t = "open" -> Ends(atoms, k + 1, s, i, i, ce)
      [] a.t = "close" -> Ends(atoms, k + 1, s, i, cs, i)
      [] a.t = "cls" -> EndsCls(atoms, k, s, i, cs, ce, Run(a, s, i, 0))
      [] a.t = "alt" -> EndsAlt(atoms, k, s, i, cs, ce, 1)

\* greedy: the longest repetition first, then shorter ones
EndsCls(atoms, k, s, i, cs, ce, n) ==
  IF n < atoms[k].min THEN << >>
  ELSE Ends(atoms, k + 1, s, i + n, cs, ce) \o EndsCls(atoms, k, s, i, cs, ce, n - 1)

\* the alternatives in written order, each followed by the rest
EndsAlt(atoms, k, s, i, cs, ce, j) ==
  IF j > Len(atoms[k].alts) THEN << >>
  ELSE EndsEach(atoms, k, s, Ends(atoms[k].alts[j], 1, s, i, cs, ce))
       \o EndsAlt(atoms, k, s, i, cs, ce, j + 1)

EndsEach(atoms, k, s, rs) ==
  IF rs = << >> THEN << >>
  ELSE Ends(atoms, k + 1, s, Head(rs)[1], Head(rs)[2], Head(rs)[3])
       \o EndsEach(atoms, k, s, Tail(rs))

\* the text a regular expression is matched against: with the i flag both
\* sides are case-folded (the catalog writes its i patterns in lower case)
Subject(re, content) == IF re.i THEN ToLowerCase(content) ELSE content

\* where a search starts: at lastIndex with the g flag, else at 0
StartIndex(re) == IF re.g THEN lastIndex[re] ELSE 0

\* RegExp.prototype.test
Test(re, content) ==
  LET txt == Subject(re, content)
  IN  \E i \in StartIndex(re)..Len(txt) : Ends(re.atoms, 1, txt, i, -1, -1) # << >>

\* the lastIndex a test of content leaves behind: untouched without the g
\* flag, else the end of the match found, or 0 when there is none
LastIndexAfterTest(re, content) ==
  IF ~re.g THEN lastIndex[re]
  ELSE LET txt == Subject(re, content)
           starts == { i \in StartIndex(re)..Len(txt) :
                         Ends(re.atoms, 1, txt, i, -1, -1) # << >> }
       IN  IF starts = {} THEN 0
           ELSE Head(Ends(re.atoms, 1, txt, Min(starts), -1, -1))[1]

\* String.prototype.match with a non-global expression: None, or
\* Some([index, end, cs, ce]) of the leftmost match; match[0] is
\* content[index..end) and match[1] is content[cs..ce)
Match(re, content) ==
  LET txt == Subject(re, content)
      starts == { i \in 0..Len(txt) : Ends(re.atoms, 1, txt, i, -1, -1) # << >> }
  IN  IF starts = {} THEN None
      ELSE LET i == Min(starts)
               r == Head(Ends(re.atoms, 1, txt, i, -1, -1))
           IN  Some([index |-> i, end |-> r[1], cs |-> r[2], ce |-> r[3]])

(***************************************************************************)
(* The signature catalog (config.ts). A pattern is a string literal        *)
(* Str(s) or a regular expression; the shipped catalog holds regular       *)
(* expressions only. Each entry repeats the source expression.             *)
(***************************************************************************)
Str(s) == [lit |-> s]
IsString(pattern) == "lit" \in DOMAIN pattern

\* /text/   /text/i   /\btext\b/   /\btext\b/i
Lit(s) == Re(<<L(s)>>)
LitI(s) == ReI(<<L(s)>>)
Word(s) == Re(<<WB, L(s), WB>>)
WordI(s) == ReI(<<WB, L(s), WB>>)

\* (\d+\.\d+\.\d+)
SemVer == <<Open, DigitPlus, L("."), DigitPlus, L("."), DigitPlus, Close>>

Rule(p, tech, cat) == [pattern |-> p, technology |-> tech, category |-> cat]

headerSignatures == <<
  [header |-> "x-powered-by",
   patterns |-> << Rule(LitI("express"), "Express", "backend-framework"),   \* /express/i
                   Rule(LitI("php"), "PHP", "runtime"),                     \* /php/i
                   Rule(LitI("asp.net"), "ASP.NET", "backend-framework"),   \* /asp\.net/i
                   Rule(LitI("next.js"), "Next.js", "frontend-framework")   \* /next\.js/i
                >>],
  [header |-> "server",
   patterns |-> << Rule(LitI("nginx"), "nginx", "server"),                  \* /nginx/i
                   Rule(LitI("apache"), "Apache", "server"),                \* /apache/i
                   Rule(LitI("cloudflare"), "Cloudflare", "server"),        \* /cloudflare/i
                   Rule(LitI("microsoft-iis"), "Microsoft IIS", "server")   \* /microsoft-iis/i
                >>],
  [header |-> "x-drupal-cache",
   patterns |-> << Rule(Re(<<AnyPlus>>), "Drupal", "cms") >>],              \* /.+/
  [header |-> "x-generator",
   patterns |-> << Rule(LitI("wordpress"), "WordPress", "cms"),             \* /wordpress/i
                   Rule(LitI("ghost"), "Ghost", "cms"),                     \* /ghost/i
                   Rule(LitI("drupal"), "Drupal", "cms"),                   \* /drupal/i
                   Rule(LitI("joomla"), "Joomla", "cms")                    \* /joomla/i
                >>],
  [header |-> "x-shopify-stage",
   patterns |-> << Rule(Re(<<AnyPlus>>), "Shopify", "ecommerce") >>]        \* /.+/
>>

Sig(n, ps, cat, vp) == [name |-> n, patterns |-> ps, category |-> cat, versionPattern |-> vp]

\* class="[^"]*\b
ClassAttr == <<L("class=\""), Cls({"\""}, TRUE, 0, -1), WB>>

frameworkSignatures == <<
  Sig("React",
      << WordI("react"),                          \* /\breact\b/i
         Word("ReactDOM"),                        \* /\bReactDOM\b/
         Lit("_reactRootContainer"),              \* /_reactRootContainer/
         Lit("data-reactroot"),                   \* /data-reactroot/
         Lit("react.production.min.js"),          \* /react\.production\.min\.js/
         Lit("react-dom") >>,                     \* /react-dom/
      "frontend-framework",
      Some(Re(<<L("react@")>> \o SemVer))),       \* /react@(\d+\.\d+\.\d+)/
  Sig("Vue.js",
      << Word("Vue"),                             \* /\bVue\b/
         Lit("__VUE__"),                          \* /__VUE__/
         Word("v-if"),                            \* /\bv-if\b/
         Word("v-for"),                           \* /\bv-for\b/
         Word("v-model"),                         \* /\bv-model\b/
         Lit("vue.runtime"),                      \* /vue\.runtime/
         Lit("vue.global") >>,                    \* /vue\.global/
      "frontend-framework",
      Some(Re(<<L("vue@")>> \o SemVer))),         \* /vue@(\d+\.\d+\.\d+)/
  Sig("Angular",
      << Lit("ng-version"),                       \* /ng-version/
         Lit("angular.js"),                       \* /angular\.js/
         Lit("angular.min.js"),                   \* /angular\.min\.js/
         Word("ng-app"),                          \* /\bng-app\b/
         Word("ng-controller"),                   \* /\bng-controller\b/
         Lit("@angular/core") >>,                 \* /@angular\/core/
      "frontend-framework",
      Some(Re(<<L("ng-version=\"")>> \o SemVer \o <<L("\"")>>))),  \* /ng-version="(\d+\.\d+\.\d+)"/
  Sig("Next.js",
      << Lit("__NEXT_DATA__"),                    \* /__NEXT_DATA__/
         Lit("_next/"),                           \* /_next\//
         Lit("next/dist"),                        \* /next\/dist/
         Lit("next-route-announcer") >>,          \* /next-route-announcer/
      "frontend-framework",
      Some(Re(<<L("\"next\":\"")>> \o SemVer \o <<L("\"")>>))),    \* /"next":"(\d+\.\d+\.\d+)"/
  Sig("Nuxt",
      << Lit("__NUXT__"),                         \* /__NUXT__/
         WordI("nuxt"),                           \* /\bnuxt\b/i
         Lit("_nuxt/"),                           \* /_nuxt\//
         Lit("nuxt.js") >>,                       \* /nuxt\.js/
      "frontend-framework", None),
  Sig("jQuery",
      << LitI("jquery"),                          \* /jquery/i
         Word("jQuery"),                          \* /\bjQuery\b/
         Lit("jquery.min.js"),                    \* /jquery\.min\.js/
         Re(<<L("jquery-"), DigitPlus>>) >>,      \* /jquery-\d+/
      "library",
      Some(ReI(<<L("jquery"), Cls({".", "-"}, FALSE, 1, 1)>> \o SemVer))),  \* /jquery[.-](\d+\.\d+\.\d+)/i
  Sig("Bootstrap",
      << LitI("bootstrap"),                       \* /bootstrap/i
         Lit("bootstrap.min.js"),                 \* /bootstrap\.min\.js/
         Lit("bootstrap.min.css"),                \* /bootstrap\.min\.css/
         \* /class="[^"]*\b(container|row|col-)/
         Re(ClassAttr \o <<Alt(<< <<L("container")>>, <<L("row")>>, <<L("col-")>> >>)>>) >>,
      "css-framework",
      Some(ReI(<<L("bootstrap"), Cls({".", "-"}, FALSE, 1, 1)>> \o SemVer))),  \* /bootstrap[.-](\d+\.\d+\.\d+)/i
  Sig("Tailwind CSS",
      << LitI("tailwind"),                        \* /tailwind/i
         Lit("tailwindcss"),                      \* /tailwindcss/
         \* /class="[^"]*\b(flex|grid|p-\d|m-\d|text-\w+|bg-\w+)/
         Re(ClassAttr \o <<Alt(<< <<L("flex")>>, <<L("grid")>>, <<L("p-"), Digit1>>,
                                  <<L("m-"), Digit1>>, <<L("text-"), WordPlus>>,
                                  <<L("bg-"), WordPlus>> >>)>>) >>,
      "css-framework", None),
  Sig("WordPress",
      << Lit("/wp-content/"),                     \* /\/wp-content\//
         Lit("/wp-includes/"),                    \* /\/wp-includes\//
         Lit("wp-json"),                          \* /wp-json/
         LitI("wordpress") >>,                    \* /wordpress/i
      "cms",
      \* /ver=(\d+\.\d+\.?\d*)/
      Some(Re(<<L("ver="), Open, DigitPlus, L("."), DigitPlus,
                Cls({"."}, FALSE, 0, 1), DigitStar, Close>>))),
  Sig("Shopify",
      << Word("Shopify"),                         \* /\bShopify\b/
         Lit("cdn.shopify.com"),                  \* /cdn\.shopify\.com/
         Lit("shopify-section"),                  \* /shopify-section/
         Lit("myshopify.com") >>,                 \* /myshopify\.com/
      "ecommerce", None),
  Sig("Wix",
      << Lit("wix-style"),                        \* /wix-style/
         Lit("wix-viewer"),                       \* /wix-viewer/
         Lit("static.wixstatic.com"),             \* /static\.wixstatic\.com/
         Lit("wix.com") >>,                       \* /wix\.com/
      "cms", None),
  Sig("Svelte",
      << WordI("svelte"),                         \* /\bsvelte\b/i
         Re(<<L("svelte-"), WordPlus>>),          \* /svelte-\w+/
         Lit("__svelte") >>,                      \* /__svelte/
      "frontend-framework", None),
  Sig("Gatsby",
      << LitI("gatsby"),                          \* /gatsby/i
         Lit("___gatsby"),                        \* /___gatsby/
         Lit("gatsby-image") >>,                  \* /gatsby-image/
      "frontend-framework", None),
  Sig("Remix",
      << Lit("__remixContext"),                   \* /__remixContext/
         LitI("remix") >>,                        \* /remix/i
      "frontend-framework", None)
>>

ASig(n, ty, ps) == [name |-> n, type |-> ty, patterns |-> ps]

analyticsSignatures == <<
  ASig("Google Analytics", "analytics",
       << Lit("ga.js"),                                   \* /ga\.js/
          Re(<<WB, L("gtag(")>>),                         \* /\bgtag\(/
          Lit("analytics.js"),                            \* /analytics\.js/
          Re(<<WB, L("UA-"), DigitPlus, L("-"), DigitPlus>>),  \* /\bUA-\d+-\d+/
          Lit("google-analytics.com"),                    \* /google-analytics\.com/
          Lit("googletagmanager.com/gtag") >>),           \* /googletagmanager\.com\/gtag/
  ASig("Google Tag Manager", "tracking",
       << Lit("gtm.js"),                                  \* /gtm\.js/
          Re(<<WB, L("GTM-"), Cls(UpperSet \cup DigitSet, FALSE, 1, -1)>>),  \* /\bGTM-[A-Z0-9]+/
          Lit("googletagmanager.com/gtm") >>),            \* /googletagmanager\.com\/gtm/
  ASig("Facebook Pixel", "marketing",
       << Re(<<WB, L("fbq(")>>),                          \* /\bfbq\(/
          Lit("facebook.net/en_US/fbevents"),             \* /facebook\.net\/en_US\/fbevents/
          Re(<<L("connect.facebook.net"), AnyStar, L("fbevents")>>) >>),  \* /connect\.facebook\.net.*fbevents/
  ASig("Hotjar", "analytics",
       << Lit("hotjar.com"),                              \* /hotjar\.com/
          Lit("_hjSettings"),                             \* /_hjSettings/
          Lit("hj.q") >>),                                \* /hj\.q/
  ASig("Segment", "analytics",
       << Lit("segment.com"),                             \* /segment\.com/
          Lit("cdn.segment.com"),                         \* /cdn\.segment\.com/
          Lit("analytics.load(") >>),                     \* /analytics\.load\(/
  ASig("Mixpanel", "analytics",
       << LitI("mixpanel"),                               \* /mixpanel/i
          Lit("cdn.mxpnl.com") >>),                       \* /cdn\.mxpnl\.com/
  ASig("Heap", "analytics",
       << Re(<<L("heap-"), DigitPlus>>),                  \* /heap-\d+/
          Lit("heapanalytics.com") >>),                   \* /heapanalytics\.com/
  ASig("Amplitude", "analytics",
       << LitI("amplitude"),                              \* /amplitude/i
          Lit("cdn.amplitude.com") >>),                   \* /cdn\.amplitude\.com/
  ASig("Intercom", "marketing",
       << LitI("intercom"),                               \* /intercom/i
          Lit("widget.intercom.io"),                      \* /widget\.intercom\.io/
          Lit("intercomSettings") >>),                    \* /intercomSettings/
  ASig("HubSpot", "marketing",
       << LitI("hubspot"),                                \* /hubspot/i
          Lit("hs-scripts.com"),                          \* /hs-scripts\.com/
          Lit("hbspt.forms") >>),                         \* /hbspt\.forms/
  ASig("Drift", "marketing",
       << Lit("drift.com"),                               \* /drift\.com/
          Lit("js.driftt.com") >>),                       \* /js\.driftt\.com/
  ASig("LinkedIn Insight", "marketing",
       << Lit("linkedin.com/px"),                         \* /linkedin\.com\/px/
          Lit("snap.licdn.com"),                          \* /snap\.licdn\.com/
          Lit("_linkedin_data_partner_id") >>),           \* /_linkedin_data_partner_id/
  ASig("Twitter Pixel", "marketing",
       << Lit("static.ads-twitter.com"),                  \* /static\.ads-twitter\.com/
          Lit("twq(") >>),                                \* /twq\(/
  ASig("Pinterest Tag", "marketing",
       << Lit("pintrk("),                                 \* /pintrk\(/
          Lit("ct.pinterest.com") >>),                    \* /ct\.pinterest\.com/
  ASig("TikTok Pixel", "marketing",
       << Lit("analytics.tiktok.com"),                    \* /analytics\.tiktok\.com/
          Lit("ttq.load") >>)                             \* /ttq\.load/
>>

(***************************************************************************)
(* Framework detector (tools/frameworks).                                  *)
(***************************************************************************)
EmptyHtmlWarning == "Empty HTML content provided"

\* createResponse; retrieved_at (the clock) is left out of the envelope
createResponse(data, warnings) ==
  [ok |-> TRUE, data |-> data,
   meta |-> [pagination |-> [next_cursor |-> "null"], warnings |-> warnings]]

matchesPattern(content, pattern) ==
  IF IsString(pattern) THEN Includes(content, pattern.lit) ELSE Test(pattern, content)

\* versionPattern is None when the signature has none
extractVersion(content, versionPattern) ==
  IF versionPattern = None THEN None
  ELSE LET match == Match(versionPattern[1], content)
       IN  IF match = None THEN None
           ELSE Some(Slice(content, match[1].cs, match[1].ce))

\* ratio = matchCount / totalPatterns is kept as the fraction it is: for the
\* operands that occur the double quotient compares with 0.5 and 0.25 as
\* the exact quotient does
RatioAtLeast(matchCount, totalPatterns, num, den) ==
  matchCount * den >= num * totalPatterns

\* mutant: the ratio thresholds taken as strict
calculateConfidenceStrict(matchCount, totalPatterns) ==
  IF ~RatioAtLeast(totalPatterns, matchCount, 2, 1) \/ matchCount >= 3 THEN "high"
  ELSE IF ~RatioAtLeast(totalPatterns, matchCount, 4, 1) \/ matchCount >= 2 THEN "medium"
  ELSE "low"

\* mutant: matchCount === 3 for matchCount >= 3
calculateConfidenceExactly3(matchCount, totalPatterns) ==
  IF RatioAtLeast(matchCount, totalPatterns, 1, 2) \/ matchCount = 3 THEN "high"
  ELSE IF RatioAtLeast(matchCount, totalPatterns, 1, 4) \/ matchCount >= 2 THEN "medium"
  ELSE "low"

\* mutant: the ratio alone decides
calculateConfidenceRatioOnly(matchCount, totalPatterns) ==
  IF RatioAtLeast(matchCount, totalPatterns, 1, 2) THEN "high"
  ELSE IF RatioAtLeast(matchCount, totalPatterns, 1, 4) THEN "medium"
  ELSE "low"

calculateConfidence(matchCount, totalPatterns) ==
  IF RatioAtLeast(matchCount, totalPatterns, 1, 2) \/ matchCount >= 3 THEN "high"
  ELSE IF RatioAtLeast(matchCount, totalPatterns, 1, 4) \/ matchCount >= 2 THEN "medium"
  ELSE "low"

\* the evidence window of a literal
EvidenceContext == 20

Max2(a, b) == IF a >= b THEN a ELSE b
Min2(a, b) == IF a <= b THEN a ELSE b

RECURSIVE findEvidenceFrom(_, _, _)
findEvidenceFrom(content, patterns, k) ==
  IF k > Len(patterns) THEN None
  ELSE LET pattern == patterns[k] IN
    IF IsString(pattern)
    THEN LET index == IndexOf(content, pattern.lit) IN
         IF index # -1
         THEN LET start == Max2(0, index - EvidenceContext)
                  end == Min2(Len(content), index + Len(pattern.lit) + EvidenceContext)
              IN  Some("..." \o Slice(content, start, end) \o "...")
         ELSE findEvidenceFrom(content, patterns, k + 1)
    ELSE LET match == Match(pattern, content) IN
         IF match # None
         THEN Some(Slice(content, match[1].index, match[1].end))
         ELSE findEvidenceFrom(content, patterns, k + 1)

\* mutant: the first rule is passed over
findEvidenceSecond(content, patterns) == findEvidenceFrom(content, patterns, 2)

findEvidence(content, patterns) == findEvidenceFrom(content, patterns, 1)

\* headers is a sequence of <<key, value>> in the object's insertion order.
\* normalizedHeaders as a function from lower-cased key to value; a later
\* entry with the same lower-cased key overwrites an earlier one
RECURSIVE NormalizeHeaders(_, _)
NormalizeHeaders(headers, n) ==
  IF n = 0 THEN << >>
  ELSE LET rest == NormalizeHeaders(headers, n - 1)
           key == ToLowerCase(headers[n][1])
       IN  [k \in DOMAIN rest \cup {key} |-> IF k = key THEN headers[n][2] ELSE rest[k]]

\* mutant: no break, the last matching rule stands
RECURSIVE LastRule(_, _, _)
LastRule(patterns, headerValue, k) ==
  IF k > Len(patterns) THEN 0
  ELSE LET later == LastRule(patterns, headerValue, k + 1)
       IN  IF later # 0 THEN later
           ELSE IF matchesPattern(headerValue, patterns[k].pattern) THEN k ELSE 0

\* the first rule of the signature, in declared order, that matches
RECURSIVE FirstRule(_, _, _)
FirstRule(patterns, headerValue, k) ==
  IF k > Len(patterns) THEN 0
  ELSE IF matchesPattern(headerValue, patterns[k].pattern) THEN k
  ELSE FirstRule(patterns, headerValue, k + 1)

\* mutant: a header hit scored like a content hit
HeaderTechnologyScored(signature, rule, headerValue) ==
  [name |-> rule.technology, version |-> None,
   confidence |-> calculateConfidence(1, Len(signature.patterns)),
   category |-> rule.category,
   evidence |-> Some(signature.header \o ": " \o headerValue)]

HeaderTechnology(signature, rule, headerValue) ==
  [name |-> rule.technology, version |-> None, confidence |-> "high",
   category |-> rule.category,
   evidence |-> Some(signature.header \o ": " \o headerValue)]

RECURSIVE HeaderLoop(_, _)
HeaderLoop(normalizedHeaders, n) ==
  IF n > Len(headerSignatures) THEN << >>
  ELSE LET signature == headerSignatures[n]
           key == ToLowerCase(signature.header)
           present == key \in DOMAIN normalizedHeaders
           headerValue == normalizedHeaders[key]
           rest == HeaderLoop(normalizedHeaders, n + 1)
       IN  IF ~present \/ headerValue = "" THEN rest
           ELSE LET r == FirstRule(signature.patterns, headerValue, 1)
                IN  IF r = 0 THEN rest
                    ELSE <<HeaderTechnology(signature, signature.patterns[r], headerValue)>>
                         \o rest

detectFromHeaders(headers) ==
  HeaderLoop(NormalizeHeaders(headers, Len(headers)), 1)

\* mutant: the inner loop stops at the first matcher that matches
MatchedPatternsFirst(html, signature) ==
  LET matched == SelectSeq(signature.patterns, LAMBDA pattern : matchesPattern(html, pattern))
  IN  SubSeq(matched, 1, Min2(1, Len(matched)))

MatchedPatterns(html, signature) ==
  SelectSeq(signature.patterns, LAMBDA pattern : matchesPattern(html, pattern))

RECURSIVE HtmlLoop(_, _)
HtmlLoop(html, n) ==
  IF n > Len(frameworkSignatures) THEN << >>
  ELSE LET signature == frameworkSignatures[n]
           matchedPatterns == MatchedPatterns(html, signature)
           matchCount == Len(matchedPatterns)
           rest == HtmlLoop(html, n + 1)
       IN  IF matchCount > 0
           THEN << [name |-> signature.name,
                    version |-> extractVersion(html, signature.versionPattern),
                    confidence |-> calculateConfidence(matchCount, Len(signature.patterns)),
                    category |-> signature.category,
                    evidence |-> findEvidence(html, matchedPatterns)] >> \o rest
           ELSE rest

detectFromHtml(html) == HtmlLoop(html, 1)

confidenceOrder == <<"high", "medium", "low">>

\* Array.prototype.indexOf on confidenceOrder, zero-based
ConfidenceIndex(c) ==
  IF \E k \in 1..Len(confidenceOrder) : confidenceOrder[k] = c
  THEN (CHOOSE k \in 1..Len(confidenceOrder) : confidenceOrder[k] = c) - 1
  ELSE -1

\* the position of name in the map's insertion order, 0 when absent
MapIndex(techMap, name) ==
  IF \E k \in 1..Len(techMap) : techMap[k].name = name
  THEN CHOOSE k \in 1..Len(techMap) : techMap[k].name = name
  ELSE 0

\* mutant: an existing key is deleted and set again, so it moves last
MapSetMoveLast(techMap, tech) ==
  Append(SelectSeq(techMap, LAMBDA t : t.name # tech.name), tech)

\* mutant: a new key goes first, so the values come out last-inserted first
MapSetPrepend(techMap, tech) ==
  LET at == MapIndex(techMap, tech.name)
  IN  IF at = 0 THEN <<tech>> \o techMap ELSE [techMap EXCEPT ![at] = tech]

\* Map.prototype.set: a new key goes last, an existing key keeps its place
MapSet(techMap, tech) ==
  LET at == MapIndex(techMap, tech.name)
  IN  IF at = 0 THEN Append(techMap, tech) ELSE [techMap EXCEPT ![at] = tech]

\* mutant: every entry is kept
DedupStepKeepAll(techMap, tech) == Append(techMap, tech)

\* mutant: no preference for the entry with a version on a confidence tie
DedupStepNoTieBreak(techMap, tech) ==
  LET at == MapIndex(techMap, tech.name) IN
  IF at = 0 THEN MapSet(techMap, tech)
  ELSE IF ConfidenceIndex(tech.confidence) < ConfidenceIndex(techMap[at].confidence)
       THEN MapSet(techMap, tech)
       ELSE techMap

\* one iteration of the loop of deduplicateTechnologies
DedupStep(techMap, tech) ==
  LET at == MapIndex(techMap, tech.name) IN
  IF at = 0 THEN MapSet(techMap, tech)
  ELSE LET existing == techMap[at]
           existingIndex == ConfidenceIndex(existing.confidence)
           newIndex == ConfidenceIndex(tech.confidence)
       IN  IF newIndex < existingIndex THEN MapSet(techMap, tech)
           ELSE IF newIndex = existingIndex /\ existing.version = None
                   /\ tech.version # None
                THEN MapSet(techMap, tech)
                ELSE techMap

RECURSIVE DedupLoop(_, _)
DedupLoop(technologies, n) ==
  IF n = 0 THEN << >>
  ELSE DedupStep(DedupLoop(technologies, n - 1), technologies[n])

deduplicateTechnologies(technologies) == DedupLoop(technologies, Len(technologies))

\* the comparator of the sort in detectFrameworks
CompareConfidence(a, b) == ConfidenceIndex(a.confidence) - ConfidenceIndex(b.confidence)

\* Array.prototype.sort is stable: an element goes after every element that
\* does not compare greater than it
RECURSIVE InsertSorted(_, _)
InsertSorted(sorted, x) ==
  IF sorted = << >> THEN <<x>>
  ELSE IF CompareConfidence(Head(sorted), x) <= 0
       THEN <<Head(sorted)>> \o InsertSorted(Tail(sorted), x)
       ELSE <<x>> \o sorted

RECURSIVE SortLoop(_, _)
SortLoop(list, n) ==
  IF n = 0 THEN << >> ELSE InsertSorted(SortLoop(list, n - 1), list[n])

SortByConfidence(list) == SortLoop(list, Len(list))

\* mutant: the test without trim
IsEmptyHtmlNoTrim(html) == html = ""

\* !html || html.trim().length === 0
IsEmptyHtml(html) == html = "" \/ Len(Trim(html)) = 0

\* headers && Object.keys(headers).length > 0; headers is None when the
\* argument is left out
HasHeaders(headers) == headers # None /\ Len(headers[1]) > 0

\* the two passes of detectFrameworks, before deduplication
HtmlPass(html) == IF IsEmptyHtml(html) THEN << >> ELSE detectFromHtml(html)
HeaderPass(headers) == IF HasHeaders(headers) THEN detectFromHeaders(headers[1]) ELSE << >>

\* lines 194-203: deduplicate, sort and wrap what the passes gave
FinishFrameworks(html, fromHtml, fromHeaders) ==
  LET warnings == IF IsEmptyHtml(html) THEN <<EmptyHtmlWarning>> ELSE << >>
      detected == fromHtml \o fromHeaders
  IN  createResponse([detected |-> SortByConfidence(deduplicateTechnologies(detected))],
                     warnings)

detectFrameworks(html, headers) ==
  FinishFrameworks(html, HtmlPass(html), HeaderPass(headers))

(***************************************************************************)
(* Analytics detector (tools/analytics.ts).                                *)
(* Its private createResponse, matchesPattern and findEvidence are copies  *)
(* of the framework detector's, line for line; the operators above stand   *)
(* for both.                                                               *)
(***************************************************************************)
\* mutant: the lower-cased copy is not tried
MatchesOriginalOnly(html, normalizedHtml, pattern) == matchesPattern(html, pattern)

\* line 78: the matcher is tried on html and on its lower-cased copy
MatchesEither(html, normalizedHtml, pattern) ==
  matchesPattern(html, pattern) \/ matchesPattern(normalizedHtml, pattern)

\* mutant: no break after a hit
RECURSIVE PatternLoopNoBreak(_, _, _, _, _)
PatternLoopNoBreak(acc, signature, html, normalizedHtml, k) ==
  IF k > Len(signature.patterns) THEN acc
  ELSE LET pattern == signature.patterns[k]
           hit == [detected |-> Append(acc.detected,
                                       [name |-> signature.name, type |-> signature.type,
                                        evidence |-> findEvidence(html, <<pattern>>)]),
                   seenNames |-> acc.seenNames \cup {signature.name}]
       IN  PatternLoopNoBreak(
             IF matchesPattern(html, pattern) \/ matchesPattern(normalizedHtml, pattern)
             THEN hit ELSE acc,
             signature, html, normalizedHtml, k + 1)

\* mutant: the evidence is looked for with every matcher of the signature
RECURSIVE PatternLoopAnyEvidence(_, _, _, _, _)
PatternLoopAnyEvidence(acc, signature, html, normalizedHtml, k) ==
  IF k > Len(signature.patterns) THEN acc
  ELSE LET pattern == signature.patterns[k] IN
    IF MatchesEither(html, normalizedHtml, pattern)
    THEN [detected |-> Append(acc.detected,
                              [name |-> signature.name, type |-> signature.type,
                               evidence |-> findEvidence(html, signature.patterns)]),
          seenNames |-> acc.seenNames \cup {signature.name}]
    ELSE PatternLoopAnyEvidence(acc, signature, html, normalizedHtml, k + 1)

\* the inner loop over signature.patterns from matcher k on; acc is
\* [detected, seenNames]. The first matcher that matches pushes an entry
\* and leaves the loop
RECURSIVE PatternLoop(_, _, _, _, _)
PatternLoop(acc, signature, html, normalizedHtml, k) ==
  IF k > Len(signature.patterns) THEN acc
  ELSE LET pattern == signature.patterns[k] IN
    IF MatchesEither(html, normalizedHtml, pattern)
    THEN [detected |-> Append(acc.detected,
                              [name |-> signature.name, type |-> signature.type,
                               evidence |-> findEvidence(html, <<pattern>>)]),
          seenNames |-> acc.seenNames \cup {signature.name}]
    ELSE PatternLoop(acc, signature, html, normalizedHtml, k + 1)

\* the outer loop over analyticsSignatures
RECURSIVE AnalyticsLoop(_, _, _)
AnalyticsLoop(html, normalizedHtml, n) ==
  IF n = 0 THEN [detected |-> << >>, seenNames |-> {}]
  ELSE LET acc == AnalyticsLoop(html, normalizedHtml, n - 1)
           signature == analyticsSignatures[n]
       IN  IF signature.name \in acc.seenNames THEN acc
           ELSE PatternLoop(acc, signature, html, normalizedHtml, 1)

detectAnalytics(html) ==
  IF IsEmptyHtml(html)
  THEN createResponse([detected |-> << >>], <<EmptyHtmlWarning>>)
  ELSE createResponse(
         [detected |-> AnalyticsLoop(html, ToLowerCase(html),
                                    Len(analyticsSignatures)).detected],
         << >>)

(***************************************************************************)
(* The RegExp objects of the catalog and what a call leaves in their       *)
(* lastIndex. An expression is identified by its source text and flags.    *)
(***************************************************************************)
HeaderExpressions ==
  UNION { { headerSignatures[n].patterns[k].pattern :
              k \in 1..Len(headerSignatures[n].patterns) } :
          n \in 1..Len(headerSignatures) }

FrameworkExpressions ==
  UNION { { frameworkSignatures[n].patterns[k] :
              k \in 1..Len(frameworkSignatures[n].patterns) } :
          n \in 1..Len(frameworkSignatures) }

VersionExpressions ==
  { frameworkSignatures[n].versionPattern[1] :
      n \in { m \in 1..Len(frameworkSignatures) :
                frameworkSignatures[m].versionPattern # None } }

AnalyticsExpressions ==
  UNION { { analyticsSignatures[n].patterns[k] :
              k \in 1..Len(analyticsSignatures[n].patterns) } :
          n \in 1..Len(analyticsSignatures) }

CatalogExpressions ==
  HeaderExpressions \cup FrameworkExpressions \cup VersionExpressions
    \cup AnalyticsExpressions

\* the header value the header pass tests rule expression re on, if any
HeaderTested(re, headers) ==
  LET normalizedHeaders == NormalizeHeaders(headers, Len(headers))
      at == { n \in 1..Len(headerSignatures) :
                /\ ToLowerCase(headerSignatures[n].header) \in DOMAIN normalizedHeaders
                /\ \E k \in 1..Len(headerSignatures[n].patterns) :
                     headerSignatures[n].patterns[k].pattern = re }
  IN  IF at = {} THEN None
      ELSE Some(normalizedHeaders[ToLowerCase(headerSignatures[Min(at)].header)])

\* lastIndex after detectFrameworks(html, headers): the matchers of the
\* content signatures are tested on html, the header rules on their header
LastIndexAfterFrameworks(html, headers) ==
  [re \in DOMAIN lastIndex |->
     IF ~re.g THEN lastIndex[re]
     ELSE IF re \in FrameworkExpressions /\ ~IsEmptyHtml(html)
          THEN LastIndexAfterTest(re, html)
     ELSE IF HasHeaders(headers) /\ HeaderTested(re, headers[1]) # None
          THEN LastIndexAfterTest(re, HeaderTested(re, headers[1])[1])
     ELSE lastIndex[re]]

\* lastIndex after detectAnalytics(html)
LastIndexAfterAnalytics(html) ==
  [re \in DOMAIN lastIndex |->
     IF re.g /\ re \in AnalyticsExpressions /\ ~IsEmptyHtml(html)
     THEN LastIndexAfterTest(re, html)
     ELSE lastIndex[re]]

(***************************************************************************)
(* Fingerprint (tools/fingerprint.ts). An argument arrives from JSON and   *)
(* is not checked against its declared type, so an argument value is       *)
(* [t, s]: its type and, for a string or a number, its text.               *)
(***************************************************************************)
Undefined == [t |-> "undefined", s |-> ""]
JsString(s) == [t |-> "string", s |-> s]
JsNumber(s) == [t |-> "number", s |-> s]

\* String.prototype.startsWith
StartsWith(s, prefix) ==
  Len(s) >= Len(prefix) /\ SubSeq(s, 1, Len(prefix)) = prefix

\* a number in a template literal
RECURSIVE NumberToString(_)
NumberToString(n) ==
  IF n < 10 THEN CharAt(Digits, n + 1)
  ELSE NumberToString(n \div 10) \o CharAt(Digits, (n % 10) + 1)

\* defaultServerConfig.timeout when FETCH_TIMEOUT is not set
DefaultTimeout == 10000

\* createResponse of fingerprint.ts, which takes the source as well;
\* retrieved_at (the clock) is left out of the envelope
createFingerprintResponse(data, source, warnings) ==
  [ok |-> TRUE, data |-> data,
   meta |-> [source |-> source, pagination |-> [next_cursor |-> "null"],
             warnings |-> warnings]]

\* mutant: the error envelope says ok
createErrorResponseOk(message, url) ==
  [ok |-> TRUE,
   data |-> [url |-> url, technologies |-> << >>, analytics |-> << >>,
             headers |-> << >>],
   meta |-> [source |-> url, pagination |-> [next_cursor |-> "null"],
             warnings |-> <<message>>]]

createErrorResponse(message, url) ==
  [ok |-> FALSE,
   data |-> [url |-> url, technologies |-> << >>, analytics |-> << >>,
             headers |-> << >>],
   meta |-> [source |-> url, pagination |-> [next_cursor |-> "null"],
             warnings |-> <<message>>]]

\* the first position from k on whose character is (is not) one of chars,
\* Len(s) + 1 when there is none
FirstOf(s, k, chars) ==
  LET at == { j \in k..Len(s) : CharAt(s, j) \in chars }
  IN  IF at = {} THEN Len(s) + 1 ELSE Min(at)
FirstNotOf(s, k, chars) ==
  LET at == { j \in k..Len(s) : CharAt(s, j) \notin chars }
  IN  IF at = {} THEN Len(s) + 1 ELSE Min(at)

\* the value of a string of digits, as far as it matters for a port
RECURSIVE PortValue(_, _)
PortValue(port, n) ==
  IF n = 0 THEN 0
  ELSE Min2(65536, 10 * PortValue(port, n - 1)
                   + (FirstOf(Digits, 1, {CharAt(port, n)}) - 1))

ForbiddenHostChars ==
  WhiteSpace \cup {"#", "/", ":", "<", ">", "?", "@", "[", "\\", "]", "^", "|", "%"}

\* new URL(url) for a url that starts with http:// or https://: whether the
\* parser accepts it. Spaces around the input are stripped, slashes after
\* the scheme are skipped, the authority runs to the next / \ ? or #, the
\* host follows the last @ and ends at the first colon, it may not be empty
\* nor hold a forbidden character, and the port is digits up to 65535.
\* (Bracketed IPv6 hosts, numeric IPv4 hosts and percent-encoding are not
\* told apart: an input with one is taken as refused.)
ParsesAsUrl(url) ==
  LET input == Trim(url)
      scheme == IF StartsWith(input, "https://") THEN 6 ELSE 5
      start == FirstNotOf(input, scheme + 1, {"/", "\\"})
      stop == FirstOf(input, start, {"/", "\\", "?", "#"})
      authority == IF stop > start THEN SubSeq(input, start, stop - 1) ELSE ""
      ats == { k \in 1..Len(authority) : CharAt(authority, k) = "@" }
      lastAt == IF ats = {} THEN 0 ELSE CHOOSE k \in ats : \A j \in ats : j <= k
      hostport == IF lastAt < Len(authority)
                  THEN SubSeq(authority, lastAt + 1, Len(authority)) ELSE ""
      colon == FirstOf(hostport, 1, {":"})
      host == IF colon > 1 THEN SubSeq(hostport, 1, colon - 1) ELSE ""
      port == IF colon < Len(hostport)
              THEN SubSeq(hostport, colon + 1, Len(hostport)) ELSE ""
  IN  /\ host # ""
      /\ CharsOf(host) \cap ForbiddenHostChars = {}
      /\ CharsOf(port) \subseteq DigitSet
      /\ PortValue(port, Len(port)) <= 65535

\* url.startsWith on a value that is no string
StartsWithTypeError(url) ==
  IF url.t = "undefined"
  THEN "Cannot read properties of undefined (reading 'startsWith')"
  ELSE "url.startsWith is not a function"

\* normalizeUrl: [threw, value], value the url returned or the message of
\* the error thrown
normalizeUrl(url) ==
  IF url.t # "string" THEN [threw |-> TRUE, value |-> StartsWithTypeError(url)]
  ELSE LET u == IF ~StartsWith(url.s, "http://") /\ ~StartsWith(url.s, "https://")
                THEN "https://" \o url.s
                ELSE url.s
       IN  IF ParsesAsUrl(u) THEN [threw |-> FALSE, value |-> u]
           ELSE [threw |-> TRUE, value |-> "Invalid URL: " \o u]

\* result[key] = value on a plain object kept as entries in insertion order
ObjectSet(o, key, value) ==
  LET at == { k \in 1..Len(o) : o[k][1] = key }
  IN  IF at = {} THEN Append(o, <<key, value>>)
      ELSE [o EXCEPT ![Min(at)] = <<key, value>>]

\* headersToObject; headers is what Headers.forEach visits, in its order
RECURSIVE headersToObject(_)
headersToObject(headers) ==
  IF headers = << >> THEN << >>
  ELSE LET n == Len(headers)
       IN  ObjectSet(headersToObject(SubSeq(headers, 1, n - 1)),
                     headers[n][1], headers[n][2])

\* timeout ?? defaultServerConfig.timeout
TimeoutOr(timeout) == IF timeout = None THEN DefaultTimeout ELSE timeout[1]

\* the errors fetchWithTimeout can throw
AbortError == [name |-> "AbortError", message |-> "This operation was aborted"]
NetworkError == [name |-> "TypeError", message |-> "fetch failed"]
BodyError == [name |-> "TypeError", message |-> "terminated"]
HttpError(response) ==
  [name |-> "Error",
   message |-> "HTTP " \o NumberToString(response.status) \o ": " \o response.statusText]

\* mutant: the error's message is not passed on
FetchFailedNoDetail(error, timeout, normalizedUrl) ==
  IF error.name = "AbortError"
  THEN createErrorResponse(
         "Request timeout after " \o NumberToString(TimeoutOr(timeout)) \o "ms",
         JsString(normalizedUrl))
  ELSE createErrorResponse("Failed to fetch URL", JsString(normalizedUrl))

\* mutant: an abort is reported like any other error
FetchFailedNoAbortCase(error, timeout, normalizedUrl) ==
  createErrorResponse("Failed to fetch URL: " \o error.message,
                      JsString(normalizedUrl))

\* the catch block of fingerprint, lines 147-153
FetchFailed(error, timeout, normalizedUrl) ==
  IF error.name = "AbortError"
  THEN createErrorResponse(
         "Request timeout after " \o NumberToString(TimeoutOr(timeout)) \o "ms",
         JsString(normalizedUrl))
  ELSE createErrorResponse("Failed to fetch URL: " \o error.message,
                           JsString(normalizedUrl))

\* mutant: the warnings of detectAnalytics are not taken over
AnalyzeFrameworkWarningsOnly(html, headers, normalizedUrl) ==
  LET frameworksResult == detectFrameworks(html, Some(headers))
      analyticsResult == detectAnalytics(html)
  IN  createFingerprintResponse(
        [url |-> JsString(normalizedUrl),
         technologies |-> frameworksResult.data.detected,
         analytics |-> analyticsResult.data.detected,
         headers |-> headers],
        JsString(normalizedUrl), frameworksResult.meta.warnings)

\* fingerprint after the fetch, lines 155-174
Analyze(html, headers, normalizedUrl) ==
  LET frameworksResult == detectFrameworks(html, Some(headers))
      analyticsResult == detectAnalytics(html)
      warnings == frameworksResult.meta.warnings \o analyticsResult.meta.warnings
  IN  createFingerprintResponse(
        [url |-> JsString(normalizedUrl),
         technologies |-> frameworksResult.data.detected,
         analytics |-> analyticsResult.data.detected,
         headers |-> headers],
        JsString(normalizedUrl), warnings)

\* lastIndex after the two detectors ran on a fetched page
LastIndexAfterFingerprint(html, headers) ==
  LET afterFrameworks == LastIndexAfterFrameworks(html, Some(headers))
  IN  [re \in DOMAIN lastIndex |->
         IF re.g /\ re \in AnalyticsExpressions /\ ~IsEmptyHtml(html)
         THEN LastIndexAfterTest(re, html)
         ELSE afterFrameworks[re]]

(***************************************************************************)
(* Protocol layer (transport/http.ts, transport/stdio.ts).                 *)
(* A JSON object is a record of its members, an absent member reading as   *)
(* undefined. A handler is an operator of what the tool it calls comes to  *)
(* (called: the envelope the tool returns, or the message of what it       *)
(* throws), which the handler's action works out once, and which the       *)
(* handler looks at only where the source calls the tool.                  *)
(***************************************************************************)
\* !v
Falsy(v) ==
  \/ v.t = "undefined"
  \/ v.t = "string" /\ v.s = ""
  \/ v.t = "number" /\ v.s = "0"

\* a value in a template literal
TemplateString(v) == IF v.t = "undefined" THEN "undefined" ELSE v.s

\* what a call made inside a try block comes to
Returns(value) == [threw |-> FALSE, value |-> value]
Throws(message) == [threw |-> TRUE, value |-> message]

\* JSON.stringify(value): the JSON text of value
Stringify(value) == [json |-> value]

\* detectFrameworks and detectAnalytics called with whatever the request
\* holds: html.trim() is reached when html is truthy, and is a TypeError
\* unless html is a string
TrimTypeError == "html.trim is not a function"

detectFrameworksOf(html, headers) ==
  IF ~Falsy(html) /\ html.t # "string" THEN Throws(TrimTypeError)
  ELSE Returns(detectFrameworks(IF html.t = "string" THEN html.s ELSE "", headers))

detectAnalyticsOf(html) ==
  IF ~Falsy(html) /\ html.t # "string" THEN Throws(TrimTypeError)
  ELSE Returns(detectAnalytics(IF html.t = "string" THEN html.s ELSE ""))

\* params.arguments and params of a tools/call request
Arguments(url, timeout, html, headers) ==
  [url |-> url, timeout |-> timeout, html |-> html, headers |-> headers]
NoArguments == Arguments(Undefined, None, Undefined, None)
Params(name, arguments) == [name |-> name, arguments |-> arguments]
NoParams == Params(Undefined, NoArguments)

\* the members a request body can have: those of a JSON-RPC request, and
\* those the REST endpoints read
Body(jsonrpc, id, method, params, arguments) ==
  [jsonrpc |-> jsonrpc, id |-> id, method |-> method, params |-> params,
   url |-> arguments.url, timeout |-> arguments.timeout,
   html |-> arguments.html, headers |-> arguments.headers]
JsonRpcRequest(id, method, params) ==
  Body(JsString("2.0"), id, method, params, NoArguments)
EmptyObject == Body(Undefined, Undefined, Undefined, NoParams, NoArguments)

\* tools/index.ts
toolDefinitions ==
  << [name |-> "fingerprint", required |-> <<"url">>],
     [name |-> "detect_frameworks", required |-> <<"html">>],
     [name |-> "detect_analytics", required |-> <<"html">>] >>

ResultResponse(id, result) == [jsonrpc |-> "2.0", id |-> id, result |-> result]
ErrorResponse(id, code, message) ==
  [jsonrpc |-> "2.0", id |-> id, error |-> [code |-> code, message |-> message]]

InitializeResult ==
  [protocolVersion |-> "2024-11-05",
   capabilities |-> [tools |-> << >>],
   serverInfo |-> [name |-> "web-stack-scan", version |-> "1.0.0"]]

TextContent(result) == << [type |-> "text", text |-> Stringify(result)] >>

\* a detector called by a handler: what it returned or threw
NotCalled == [threw |-> FALSE, value |-> << >>]
CallTool(toolName, args) ==
  CASE toolName = JsString("detect_frameworks") ->
         detectFrameworksOf(args.html, args.headers)
    [] toolName = JsString("detect_analytics") -> detectAnalyticsOf(args.html)
    [] OTHER -> NotCalled

\* fingerprint awaited by a handler: it catches what it meets and always
\* resolves
Fingerprinted(envelope) == Returns(envelope)

KnownTool(toolName) ==
  \E n \in 1..Len(toolDefinitions) : toolName = JsString(toolDefinitions[n].name)

\* mutant: the catch answers with the code of an unknown tool
ToolsCallNoCatch(id, params, called) ==
  IF ~KnownTool(params.name)
  THEN ErrorResponse(id, -32601, "Unknown tool: " \o TemplateString(params.name))
  ELSE IF called.threw
           THEN ErrorResponse(id, -32601, "Unknown tool: " \o TemplateString(params.name))
           ELSE ResultResponse(id, [content |-> TextContent(called.value)])

\* case 'tools/call', with the catch that a throwing tool lands in
ToolsCall(id, params, called) ==
  IF ~KnownTool(params.name)
  THEN ErrorResponse(id, -32601, "Unknown tool: " \o TemplateString(params.name))
  ELSE IF called.threw
           THEN ErrorResponse(id, -32603, "Internal error: " \o called.value)
           ELSE ResultResponse(id, [content |-> TextContent(called.value)])

\* http.ts, handleJsonRpcRequest
handleJsonRpcRequest(request, called) ==
  CASE request.method = JsString("initialize") ->
         ResultResponse(request.id, InitializeResult)
    [] request.method = JsString("tools/list") ->
         ResultResponse(request.id, [tools |-> toolDefinitions])
    [] request.method = JsString("tools/call") ->
         ToolsCall(request.id, request.params, called)
    [] OTHER ->
         ErrorResponse(request.id, -32601,
                       "Method not found: " \o TemplateString(request.method))

\* stdio.ts, handleRequest
handleRequest(request, called) ==
  CASE request.method = JsString("initialize") ->
         ResultResponse(request.id, InitializeResult)
    [] request.method = JsString("notifications/initialized") ->
         ResultResponse(request.id, << >>)
    [] request.method = JsString("tools/list") ->
         ResultResponse(request.id, [tools |-> toolDefinitions])
    [] request.method = JsString("tools/call") ->
         ToolsCall(request.id, request.params, called)
    [] OTHER ->
         ErrorResponse(request.id, -32601,
                       "Method not found: " \o TemplateString(request.method))

\* the request reaches `await fingerprint(url, timeout)`
CallsFingerprint(request) ==
  request.method = JsString("tools/call") /\ request.params.name = JsString("fingerprint")

\* what arrives as a request body or as an input line: nothing but white
\* space, text JSON.parse rejects, the text null, or the text of an object
Blank == [kind |-> "blank", value |-> EmptyObject]
Unparseable == [kind |-> "unparseable", value |-> EmptyObject]
JsonNull == [kind |-> "null", value |-> EmptyObject]
Json(object) == [kind |-> "object", value |-> object]

\* JSON.parse(text): the value, or the SyntaxError's message
JsonSyntaxError == "Unexpected end of JSON input"
JsonParse(payload) ==
  IF payload.kind \in {"blank", "unparseable"} THEN Throws(JsonSyntaxError)
  ELSE Returns(payload)

\* reading a member of null, and destructuring null
NullTypeError(member) ==
  "Cannot read properties of null (reading '" \o member \o "')"
DestructureTypeError(member) ==
  "Cannot destructure property '" \o member \o "' of 'JSON.parse(...)' as it is null."

\* http.ts, sendJson: the one response a request gets
sendJson(statusCode, data) == [status |-> statusCode, body |-> Stringify(data)]

handleHealthCheck == sendJson(200, [status |-> "ok", service |-> "web-stack-scan"])
handleNotFound == sendJson(404, [error |-> "Not found"])
handleMethodNotAllowed == sendJson(405, [error |-> "Method not allowed"])

\* the catch block every endpoint handler ends with
ServerError(message) == sendJson(500, [ok |-> FALSE, error |-> message])

\* http.ts, handleMcpRequest
handleMcpRequest(payload, called) ==
  LET parsed == JsonParse(payload)
      request == payload.value
  IN  IF parsed.threw THEN ServerError(parsed.value)
      ELSE IF payload.kind = "null" THEN ServerError(NullTypeError("jsonrpc"))
      ELSE IF Falsy(request.jsonrpc) \/ request.jsonrpc # JsString("2.0")
      THEN sendJson(400,
             ErrorResponse(IF Falsy(request.id) THEN JsNumber("0") ELSE request.id,
                           -32600,
                           "Invalid Request: missing or invalid jsonrpc version"))
      ELSE sendJson(200, handleJsonRpcRequest(request, called))

McpCallsFingerprint(payload) ==
  /\ payload.kind = "object"
  /\ payload.value.jsonrpc = JsString("2.0")
  /\ CallsFingerprint(payload.value)

\* http.ts, handleFingerprintApi
handleFingerprintApi(payload, called) ==
  LET parsed == JsonParse(payload)
  IN  IF parsed.threw THEN ServerError(parsed.value)
      ELSE IF payload.kind = "null" THEN ServerError(DestructureTypeError("url"))
      ELSE IF Falsy(payload.value.url)
      THEN sendJson(400, [error |-> "Missing required parameter: url"])
      ELSE sendJson(200, called.value)

ApiCallsFingerprint(payload) ==
  payload.kind = "object" /\ ~Falsy(payload.value.url)

\* http.ts, handleFrameworksApi
handleFrameworksApi(payload, called) ==
  LET parsed == JsonParse(payload)
  IN  IF parsed.threw THEN ServerError(parsed.value)
      ELSE IF payload.kind = "null" THEN ServerError(DestructureTypeError("html"))
      ELSE IF Falsy(payload.value.html)
      THEN sendJson(400, [error |-> "Missing required parameter: html"])
      ELSE IF called.threw THEN ServerError(called.value)
      ELSE sendJson(200, called.value)

\* http.ts, handleAnalyticsApi
handleAnalyticsApi(payload, called) ==
  LET parsed == JsonParse(payload)
  IN  IF parsed.threw THEN ServerError(parsed.value)
      ELSE IF payload.kind = "null" THEN ServerError(DestructureTypeError("html"))
      ELSE IF Falsy(payload.value.html)
      THEN sendJson(400, [error |-> "Missing required parameter: html"])
      ELSE IF called.threw THEN ServerError(called.value)
      ELSE sendJson(200, called.value)

\* new URL(req.url, base) of the request listener: whether the request
\* target parses against the base (one that starts with // names an empty
\* host and does not), and the path it names
Paths == {"/mcp", "/health", "/api/fingerprint", "/api/frameworks", "/api/analytics"}
TargetParses(target) == ~StartsWith(target, "//")
Pathname(target) == SubSeq(target, 1, FirstOf(target, 1, {"?", "#"}) - 1)

\* the request listener of createHttpServer once the target has parsed:
\* the switch on the path and the method
Route(method, target, payload, called) ==
  LET pathname == Pathname(target)
  IN  CASE pathname = "/mcp" ->
             IF method = "POST" THEN handleMcpRequest(payload, called)
             ELSE handleMethodNotAllowed
        [] pathname = "/health" ->
             IF method = "GET" THEN handleHealthCheck ELSE handleMethodNotAllowed
        [] pathname = "/api/fingerprint" ->
             IF method = "POST" THEN handleFingerprintApi(payload, called)
             ELSE handleMethodNotAllowed
        [] pathname = "/api/frameworks" ->
             IF method = "POST" THEN handleFrameworksApi(payload, called)
             ELSE handleMethodNotAllowed
        [] pathname = "/api/analytics" ->
             IF method = "POST" THEN handleAnalyticsApi(payload, called)
             ELSE handleMethodNotAllowed
        [] OTHER -> handleNotFound

RouteCallsFingerprint(method, target, payload) ==
  /\ method = "POST"
  /\ \/ Pathname(target) = "/mcp" /\ McpCallsFingerprint(payload)
     \/ Pathname(target) = "/api/fingerprint" /\ ApiCallsFingerprint(payload)

\* stdio.ts, the 'line' listener: the lines it writes to stdout
ParseError == ErrorResponse(JsNumber("0"), -32700, "Parse error")

OnLine(payload, called) ==
  IF payload.kind = "blank" THEN << >>
  ELSE IF payload.kind # "object" THEN << Stringify(ParseError) >>
  ELSE LET request == payload.value
           response == handleRequest(request, called)
       IN  IF request.method.t # "string" THEN << Stringify(ParseError) >>
           ELSE IF StartsWith(request.method.s, "notifications/") THEN << >>
           ELSE << Stringify(response) >>

LineCallsFingerprint(payload) ==
  payload.kind = "object" /\ CallsFingerprint(payload.value)

\* the arguments fingerprint is called with
FingerprintArguments(payload) ==
  IF CallsFingerprint(payload.value) THEN payload.value.params.arguments
  ELSE [url |-> payload.value.url, timeout |-> payload.value.timeout]

\* the detector a request gets to, and the arguments it hands it
LineTool(payload) ==
  [name |-> payload.value.params.name, arguments |-> payload.value.params.arguments]

RouteTool(target, payload) ==
  CASE Pathname(target) = "/api/frameworks" ->
         [name |-> JsString("detect_frameworks"), arguments |-> payload.value]
    [] Pathname(target) = "/api/analytics" ->
         [name |-> JsString("detect_analytics"), arguments |-> payload.value]
    [] OTHER -> LineTool(payload)

\* the handler gets as far as calling a detector
LineCallsDetector(payload) ==
  /\ payload.kind = "object"
  /\ payload.value.method = JsString("tools/call")
  /\ payload.value.params.name \in {JsString("detect_frameworks"), JsString("detect_analytics")}

RouteCallsDetector(method, target, payload) ==
  /\ method = "POST" /\ payload.kind = "object"
  /\ CASE Pathname(target) = "/mcp" ->
            payload.value.jsonrpc = JsString("2.0") /\ LineCallsDetector(payload)
       [] Pathname(target) \in {"/api/frameworks", "/api/analytics"} ->
            ~Falsy(payload.value.html)
       [] OTHER -> FALSE

(***************************************************************************)
(* The callers' inputs. An html argument is two snippets of a pool put     *)
(* together; a headers argument is left out (None), or an object whose     *)
(* entries, in insertion order, have distinct keys of the pool.            *)
(***************************************************************************)
NumFrameworkSnippets == 8
NumAnalyticsSnippets == 8
NumHeaders == 5
MaxHeaders == 2

FrameworkSnippets == <<
  "", " ", "\n",
  "data-reactroot", "react-dom", "wp-json", "ver=6.4 WordPress", "remix",
  "ng-version=\"17.0.0\"", "<p class=\"row\">" >>

AnalyticsSnippets == <<
  "", " ", "\n",
  "gtag('UA-1-2')", "GTM-AB1", "HOTJAR.COM", "_hjSettings", "cdn.segment.com",
  "Mixpanel", "fbq(" >>

HeaderEntries == <<
  <<"X-Powered-By", "PHP/8.1 Express">>,
  <<"x-powered-by", "Kestrel">>,
  <<"X-Generator", "WordPress 6.4">>,
  <<"x-drupal-cache", "HIT">>,
  <<"x-generator", "Drupal 9">>,
  <<"Server", "">>,
  <<"X-Shopify-Stage", "production">> >>

Pool(list, n) == { list[k] : k \in 1..Min2(n, Len(list)) }

Pairs(pool) == { a \o b : a, b \in pool }

FrameworkHtmlInputs == Pairs(Pool(FrameworkSnippets, NumFrameworkSnippets))
AnalyticsHtmlInputs == Pairs(Pool(AnalyticsSnippets, NumAnalyticsSnippets))

DistinctKeys(o) == \A i, j \in 1..Len(o) : i # j => o[i][1] # o[j][1]

\* the objects of n entries
RECURSIVE HeaderObjects(_)
HeaderObjects(n) ==
  IF n = 0 THEN { << >> }
  ELSE { x \in { Append(o, e) : o \in HeaderObjects(n - 1),
                                e \in Pool(HeaderEntries, NumHeaders) } :
         DistinctKeys(x) }

HeaderInputs ==
  {None} \cup { Some(o) : o \in UNION { HeaderObjects(n) : n \in 0..MaxHeaders } }

\* calculateConfidence is tried for signatures of up to MaxPatterns matchers
MaxPatterns == 10

\* deduplicateTechnologies is tried on lists of up to MaxTechnologies
\* entries over the first NumNames names
MaxTechnologies == 3
NumNames == 2

TechnologyNames == <<"WordPress", "Drupal", "Shopify">>

TechnologyEntries ==
  [name : Pool(TechnologyNames, NumNames),
   version : {None, Some("6.4")},
   confidence : {"high", "medium", "low"},
   category : {"cms"},
   evidence : {None}]

(***************************************************************************)
(* State.                                                                  *)
(*   call, pc, html, headers, htmlPass, headerPass, result: one call of a  *)
(*     detector, its arguments, the lists its two passes produced and the  *)
(*     envelope it returned                                                *)
(*   totalPatterns, matchCount, confidence, lastCount, lastConfidence:     *)
(*     calls of calculateConfidence for one signature, the latest and the  *)
(*     one before it                                                       *)
(*   technologies, deduped, again: a call of deduplicateTechnologies and   *)
(*     a second call on the list the first returned                        *)
(*   history: the detector calls completed so far, each with its arguments *)
(*     and what it returned                                                *)
(*   fp: the calls of fingerprint, each with its arguments, the site it    *)
(*     fetches, its position, its abort controller and timer, the url it   *)
(*     passed to fetch and the envelope it resolved with                   *)
(*   transport, alive, rq, calledTool: the transport the process started   *)
(*     with, whether the process is still running, the requests it is sent *)
(*     (HTTP requests, or lines on stdin), each with the handler's         *)
(*     position, what dispatch returned and the replies written for it,    *)
(*     and what the tool each request's handler called came to; request r  *)
(*     awaits call r of fingerprint                                        *)
(***************************************************************************)
VARIABLES call, pc, html, headers, htmlPass, headerPass, result,
          totalPatterns, matchCount, confidence, lastCount, lastConfidence,
          evidenceCall,
          technologies, deduped, again,
          history,
          fp,
          transport, alive, rq, calledTool

detectVars == <<call, pc, html, headers, htmlPass, headerPass, result>>
confidenceVars == <<totalPatterns, matchCount, confidence, lastCount, lastConfidence>>
evidenceVars == <<evidenceCall>>
dedupVars == <<technologies, deduped, again>>
catalogVars == <<lastIndex, history>>
serverVars == <<transport, alive, rq, calledTool>>
vars == <<detectVars, confidenceVars, evidenceVars, dedupVars, catalogVars, fp, serverVars>>

\* fingerprint may be in flight NumCalls times at once
NumCalls == 2
Calls == 1..NumCalls

\* what fetch meets: a site that cannot be reached, or one that answers
\* with a status line and headers and then sends its body (body None: the
\* connection breaks while the body is read)
Unreachable ==
  [kind |-> "rejects", status |-> 0, statusText |-> "", headers |-> << >>, body |-> None]
Responds(status, statusText, responseHeaders, body) ==
  [kind |-> "responds", status |-> status, statusText |-> statusText,
   headers |-> responseHeaders, body |-> body]

IdleCall ==
  [pc |-> "idle", url |-> Undefined, timeout |-> None, site |-> Unreachable,
   normalizedUrl |-> "", fetchUrl |-> None, aborted |-> FALSE, timer |-> "none",
   outcome |-> "none", invoked |-> FALSE, result |-> None]

Called(url, timeout, site) ==
  [IdleCall EXCEPT !.pc = "called", !.url = url, !.timeout = timeout, !.site = site]

NoFingerprint == fp = [c \in Calls |-> IdleCall]

IdleRequest ==
  [pc |-> "idle", method |-> "", target |-> "", payload |-> Blank,
   response |-> None, replies |-> << >>]

HttpRequest(method, target, payload) ==
  [IdleRequest EXCEPT !.pc = "arrived", !.method = method, !.target = target,
                      !.payload = payload]

Line(payload) == [IdleRequest EXCEPT !.pc = "arrived", !.payload = payload]

NoServer ==
  /\ transport = "none" /\ alive = TRUE
  /\ rq = [r \in Calls |-> IdleRequest]
  /\ calledTool = [r \in Calls |-> NotCalled]

NoDetect ==
  /\ call = "none" /\ pc = "idle" /\ html = "" /\ headers = None
  /\ htmlPass = << >> /\ headerPass = << >> /\ result = None

NoConfidence ==
  /\ totalPatterns = 0 /\ matchCount = 0 /\ confidence = None
  /\ lastCount = 0 /\ lastConfidence = None

NoEvidence == evidenceCall = [pc |-> "idle", content |-> "", patterns |-> << >>, evidence |-> None]

NoDedup == technologies = << >> /\ deduped = None /\ again = None

\* the catalog as the module creates it, and no call made yet
FreshCatalog == lastIndex = [re \in CatalogExpressions |-> 0] /\ history = << >>

\* ---- the detectors ----
InitDetect ==
  /\ pc = "called"
  /\ \/ call = "detectFrameworks" /\ html \in FrameworkHtmlInputs /\ headers \in HeaderInputs
     \/ call = "detectAnalytics" /\ html \in AnalyticsHtmlInputs /\ headers = None
  /\ htmlPass = << >>
  /\ headerPass = << >>
  /\ result = None

Init == InitDetect /\ NoConfidence /\ NoEvidence /\ NoDedup /\ FreshCatalog /\ NoFingerprint /\ NoServer

\* a completed call as history keeps it
Completed(envelope) ==
  [call |-> call, html |-> html, headers |-> headers,
   detected |-> envelope.data.detected, warnings |-> envelope.meta.warnings]

DetectFrameworks ==
  /\ pc = "called" /\ call = "detectFrameworks"
  /\ htmlPass' = HtmlPass(html)
  /\ headerPass' = HeaderPass(headers)
  /\ result' = Some(FinishFrameworks(html, htmlPass', headerPass'))
  /\ pc' = "returned"
  /\ lastIndex' = LastIndexAfterFrameworks(html, headers)
  /\ history' = Append(history, Completed(result'[1]))
  /\ UNCHANGED <<call, html, headers, confidenceVars, evidenceVars, dedupVars, fp, serverVars>>

DetectAnalytics ==
  /\ pc = "called" /\ call = "detectAnalytics"
  /\ result' = Some(detectAnalytics(html))
  /\ pc' = "returned"
  /\ lastIndex' = LastIndexAfterAnalytics(html)
  /\ history' = Append(history, Completed(result'[1]))
  /\ UNCHANGED <<call, html, headers, htmlPass, headerPass, confidenceVars, evidenceVars, dedupVars, fp, serverVars>>

Next == DetectFrameworks \/ DetectAnalytics

Spec == Init /\ [][Next]_vars

\* ---- calculateConfidence alone ----
InitConfidence ==
  /\ NoDetect /\ NoEvidence /\ NoDedup /\ FreshCatalog /\ NoFingerprint /\ NoServer
  /\ totalPatterns \in 1..MaxPatterns
  /\ matchCount = 0 /\ confidence = None
  /\ lastCount = 0 /\ lastConfidence = None

CalculateConfidence ==
  /\ totalPatterns >= 1
  /\ \E m \in 1..totalPatterns :
       /\ matchCount' = m
       /\ confidence' = Some(calculateConfidence(m, totalPatterns))
  /\ lastCount' = matchCount
  /\ lastConfidence' = confidence
  /\ UNCHANGED <<totalPatterns, detectVars, evidenceVars, dedupVars, catalogVars, fp, serverVars>>

NextConfidence == CalculateConfidence

SpecConfidence == InitConfidence /\ [][NextConfidence]_vars

\* ---- findEvidence alone, beside the HTML pass that calls it ----
MaxRules == 2

\* rules of both kinds: literals (one empty, one never found) and
\* expressions (one with a capture group)
EvidenceRules ==
  << Str("id=app"), Str(""), Str("zz"), LitI("react"),
     Re(<<L("ver="), Open, DigitPlus, Close>>) >>

EvidenceContents ==
  { "", "id=app",
    "0123456789012345678901234id=app0123456789012345678901234",
    "01234id=app012345678901234567890123456789id=app",
    "React ver=18 react",
    "ver=7 zz 0123456789012345678 id=app" }

EvidenceHtml == {"remix", "wp-json ver=6.4 WordPress", "<div ng-version=\"17.0.1\" data-reactroot>"}

InitEvidence ==
  /\ NoConfidence /\ NoDedup /\ FreshCatalog /\ NoFingerprint /\ NoServer
  /\ pc = "called" /\ call = "detectFrameworks"
  /\ html \in EvidenceHtml /\ headers = None
  /\ htmlPass = << >> /\ headerPass = << >> /\ result = None
  /\ \E content \in EvidenceContents, n \in 0..MaxRules :
       \E chosen \in [1..n -> 1..Len(EvidenceRules)] :
         evidenceCall = [pc |-> "called", content |-> content,
                         patterns |-> [k \in 1..n |-> EvidenceRules[chosen[k]]],
                         evidence |-> None]

FindEvidence ==
  /\ evidenceCall.pc = "called"
  /\ evidenceCall' = [evidenceCall EXCEPT
       !.pc = "returned",
       !.evidence = findEvidence(evidenceCall.content, evidenceCall.patterns)]
  /\ UNCHANGED <<detectVars, confidenceVars, dedupVars, catalogVars, fp, serverVars>>

NextEvidence == FindEvidence \/ DetectFrameworks

SpecEvidence == InitEvidence /\ [][NextEvidence]_vars

\* ---- calculateConfidence beside the HTML pass that calls it ----
ContentHtml ==
  { "data-reactroot", "react-dom", "wp-json", "remix", "data-v-1a2b3c4d",
    "data-reactroot wp-json" }

InitContent ==
  /\ NoEvidence /\ NoDedup /\ FreshCatalog /\ NoFingerprint /\ NoServer
  /\ pc = "called" /\ call = "detectFrameworks"
  /\ html \in ContentHtml /\ headers = None
  /\ htmlPass = << >> /\ headerPass = << >> /\ result = None
  /\ totalPatterns \in 1..MaxPatterns
  /\ matchCount = 0 /\ confidence = None
  /\ lastCount = 0 /\ lastConfidence = None

NextContent == CalculateConfidence \/ DetectFrameworks

SpecContent == InitContent /\ [][NextContent]_vars

\* ---- deduplicateTechnologies alone ----
InitDedup ==
  /\ NoDetect /\ NoConfidence /\ NoEvidence /\ FreshCatalog /\ NoFingerprint /\ NoServer
  /\ \E n \in 0..MaxTechnologies : technologies \in [1..n -> TechnologyEntries]
  /\ deduped = None
  /\ again = None

Deduplicate ==
  /\ deduped = None /\ call = "none"
  /\ deduped' = Some(deduplicateTechnologies(technologies))
  /\ UNCHANGED <<technologies, again, detectVars, confidenceVars, evidenceVars, catalogVars, fp, serverVars>>

\* the list the first call returned is deduplicated once more
DeduplicateAgain ==
  /\ deduped # None /\ again = None /\ call = "none"
  /\ again' = Some(deduplicateTechnologies(deduped[1]))
  /\ UNCHANGED <<technologies, deduped, detectVars, confidenceVars, evidenceVars, catalogVars, fp, serverVars>>

NextDedup == Deduplicate \/ DeduplicateAgain

SpecDedup == InitDedup /\ [][NextDedup]_vars

\* ---- the detectors called again and again ----
\* up to MaxCalls calls, each with arguments of its own choice
MaxCalls == 3

RepeatFrameworkHtml == {"remix", "wp-json ver=6.4 WordPress"}
RepeatAnalyticsHtml == {"Mixpanel", "GTM-AB1"}
RepeatHeaders == {None, Some(<< <<"X-Powered-By", "PHP/8.1 Express">> >>)}

InitRepeat == NoDetect /\ NoConfidence /\ NoEvidence /\ NoDedup /\ FreshCatalog /\ NoFingerprint /\ NoServer

Call ==
  /\ pc \in {"idle", "returned"}
  /\ Len(history) < MaxCalls
  /\ \/ /\ call' = "detectFrameworks"
        /\ html' \in RepeatFrameworkHtml
        /\ headers' \in RepeatHeaders
     \/ /\ call' = "detectAnalytics"
        /\ html' \in RepeatAnalyticsHtml
        /\ headers' = None
  /\ pc' = "called"
  /\ htmlPass' = << >>
  /\ headerPass' = << >>
  /\ result' = None
  /\ UNCHANGED <<confidenceVars, evidenceVars, dedupVars, catalogVars, fp, serverVars>>

NextRepeat == Call \/ DetectFrameworks \/ DetectAnalytics

SpecRepeat == InitRepeat /\ [][NextRepeat]_vars

\* ---- fingerprint ----
\* lines 127-144: normalizeUrl, then fetchWithTimeout up to its await of
\* fetch: a controller of the call's own, its timer armed, fetch called
Fingerprint(c) ==
  /\ fp[c].pc = "called"
  /\ LET n == normalizeUrl(fp[c].url)
     IN  IF n.threw
         THEN fp' = [fp EXCEPT ![c].pc = "returned",
                               ![c].outcome = "invalid",
                               ![c].result = Some(createErrorResponse(n.value, fp[c].url))]
         ELSE fp' = [fp EXCEPT ![c].pc = "fetching",
                               ![c].normalizedUrl = n.value,
                               ![c].aborted = FALSE,
                               ![c].timer = "armed",
                               ![c].fetchUrl = Some(n.value)]
  /\ UNCHANGED <<detectVars, confidenceVars, evidenceVars, dedupVars, catalogVars, serverVars>>

\* mutant: one controller for every call, so an abort reaches all of them
AbortShared(f, c) == [k \in DOMAIN f |-> [f[k] EXCEPT !.aborted = TRUE]]

\* controller.abort() on the controller of call c
Abort(f, c) == [f EXCEPT ![c].aborted = TRUE]

\* line 88: the timer of call c goes off while the call awaits
TimerFires(c) ==
  /\ fp[c].timer = "armed"
  /\ fp' = [Abort(fp, c) EXCEPT ![c].timer = "fired"]
  /\ UNCHANGED <<detectVars, confidenceVars, evidenceVars, dedupVars, catalogVars, serverVars>>

\* mutant: fetchWithTimeout without its finally block
ClearTimeoutNever(timer) == timer

\* clearTimeout(timeoutId): a timer that went off stays as it is
ClearTimeout(timer) == IF timer = "armed" THEN "cleared" ELSE timer

\* fetchWithTimeout throws error: its finally clears the timer, and the
\* catch block of fingerprint returns the error envelope
Throw(c, error, outcome) ==
  fp' = [fp EXCEPT ![c].pc = "returned",
                   ![c].timer = ClearTimeout(fp[c].timer),
                   ![c].outcome = outcome,
                   ![c].result = Some(FetchFailed(error, fp[c].timeout,
                                                  fp[c].normalizedUrl))]

\* the aborted signal rejects the pending fetch or body read
FetchAborted(c) ==
  /\ fp[c].pc \in {"fetching", "reading"}
  /\ fp[c].aborted
  /\ Throw(c, AbortError, "aborted")
  /\ UNCHANGED <<detectVars, confidenceVars, evidenceVars, dedupVars, catalogVars, serverVars>>

\* fetch rejects: the site cannot be reached
FetchRejects(c) ==
  /\ fp[c].pc = "fetching"
  /\ ~fp[c].aborted
  /\ fp[c].site.kind = "rejects"
  /\ Throw(c, NetworkError, "rejected")
  /\ UNCHANGED <<detectVars, confidenceVars, evidenceVars, dedupVars, catalogVars, serverVars>>

\* response.ok: a status from 200 to 299
ResponseOk(response) == response.status >= 200 /\ response.status <= 299

\* fetch resolves, lines 101-105: a status outside 2xx is thrown, else the
\* call goes on to await response.text()
FetchResolves(c) ==
  /\ fp[c].pc = "fetching"
  /\ ~fp[c].aborted
  /\ fp[c].site.kind = "responds"
  /\ IF ~ResponseOk(fp[c].site)
     THEN Throw(c, HttpError(fp[c].site), "status")
     ELSE fp' = [fp EXCEPT ![c].pc = "reading"]
  /\ UNCHANGED <<detectVars, confidenceVars, evidenceVars, dedupVars, catalogVars, serverVars>>

\* the body cannot be read to its end
BodyFails(c) ==
  /\ fp[c].pc = "reading"
  /\ ~fp[c].aborted
  /\ fp[c].site.body = None
  /\ Throw(c, BodyError, "body")
  /\ UNCHANGED <<detectVars, confidenceVars, evidenceVars, dedupVars, catalogVars, serverVars>>

\* response.text() resolves, lines 105-110 and 155-174: the timer is
\* cleared, both detectors run and the envelope is returned
BodyCompletes(c) ==
  /\ fp[c].pc = "reading"
  /\ ~fp[c].aborted
  /\ fp[c].site.body # None
  /\ LET body == fp[c].site.body[1]
         responseHeaders == headersToObject(fp[c].site.headers)
     IN  /\ fp' = [fp EXCEPT ![c].pc = "returned",
                             ![c].timer = ClearTimeout(fp[c].timer),
                             ![c].outcome = "ok",
                             ![c].invoked = TRUE,
                             ![c].result = Some(Analyze(body, responseHeaders,
                                                        fp[c].normalizedUrl))]
         /\ lastIndex' = LastIndexAfterFingerprint(body, responseHeaders)
  /\ UNCHANGED <<detectVars, confidenceVars, evidenceVars, dedupVars, history, serverVars>>

FingerprintStep(c) ==
  \/ Fingerprint(c)
  \/ TimerFires(c)
  \/ FetchAborted(c)
  \/ FetchRejects(c)
  \/ FetchResolves(c)
  \/ BodyFails(c)
  \/ BodyCompletes(c)

\* one call, its url, its timeout and the site drawn from the pools
UrlInputs ==
  { Undefined, JsString(""), JsString("example.com"),
    JsString("https://example.com"), JsString("http://example.com/a?b=c"),
    JsString("exa mple.com"), JsString("example.com:8080"),
    JsString("HTTP://example.com"), JsString("ftp://example.com") }

TimeoutInputs == { None, Some(0), Some(2500) }

ResponseHeaders ==
  { << >>, << <<"server", "nginx">>, <<"x-powered-by", "Express">> >> }

Bodies == { None, Some(""), Some("remix GTM-AB1"), Some("wp-json") }

Sites ==
  {Unreachable}
    \cup { Responds(404, "Not Found", h, None) : h \in ResponseHeaders }
    \cup { Responds(503, "Service Unavailable", << >>, None) }
    \cup { Responds(200, "OK", h, b) : h \in ResponseHeaders, b \in Bodies }

InitFingerprint ==
  /\ NoDetect /\ NoConfidence /\ NoEvidence /\ NoDedup /\ FreshCatalog /\ NoServer
  /\ \E url \in UrlInputs, timeout \in TimeoutInputs, site \in Sites :
       fp = [c \in Calls |-> IF c = 1 THEN Called(url, timeout, site) ELSE IdleCall]

NextFingerprint == \E c \in Calls : FingerprintStep(c)

SpecFingerprint == InitFingerprint /\ [][NextFingerprint]_vars

\* once aborted, the runtime rejects the pending promise and runs the
\* continuation
SpecFingerprintFair ==
  SpecFingerprint /\ \A c \in Calls : WF_vars(FetchAborted(c))

\* the runtime starts a call that was made (Fingerprint(c) is enabled
\* exactly while the call is at "called", so its weak fairness says that
\* the call does not stay there), a timer that is armed goes off when its
\* delay is over, and an aborted signal rejects what awaits it; whether
\* and when the site answers is left open
SpecFingerprintLive ==
  SpecFingerprint /\ \A c \in Calls :
    /\ []<>(fp[c].pc # "called")
    /\ WF_vars(TimerFires(c)) /\ WF_vars(FetchAborted(c))

\* ---- calls in flight together ----
ConcurrentSites ==
  { Unreachable, Responds(200, "OK", << >>, None),
    Responds(200, "OK", << <<"x-powered-by", "Express">> >>, Some("remix GTM-AB1")) }

InitConcurrent ==
  /\ NoConfidence /\ NoEvidence /\ NoDedup /\ FreshCatalog /\ NoServer
  /\ pc = "called"
  /\ \/ call = "detectFrameworks" /\ html = "remix"
        /\ headers = Some(<< <<"X-Powered-By", "PHP/8.1 Express">> >>)
     \/ call = "detectAnalytics" /\ html = "Mixpanel" /\ headers = None
  /\ htmlPass = << >> /\ headerPass = << >> /\ result = None
  /\ fp \in [Calls -> { Called(JsString("example.com"), None, site) :
                          site \in ConcurrentSites }]

NextConcurrent ==
  \/ DetectFrameworks
  \/ DetectAnalytics
  \/ \E c \in Calls : FingerprintStep(c)

SpecConcurrent == InitConcurrent /\ [][NextConcurrent]_vars

\* ---- a detector call and a call of fingerprint, of every outcome ----
EnvelopeUrls ==
  { Undefined, JsString("example.com"), JsString("exa mple.com"),
    JsString("http://example.com/a?b=c") }

EnvelopeSites ==
  { Unreachable, Responds(404, "Not Found", << >>, None),
    Responds(200, "OK", << >>, None), Responds(200, "OK", << >>, Some("")),
    Responds(200, "OK", << <<"x-powered-by", "Express">> >>, Some("remix GTM-AB1")) }

InitEnvelopes ==
  /\ NoConfidence /\ NoEvidence /\ NoDedup /\ FreshCatalog /\ NoServer
  /\ pc = "called"
  /\ \/ call = "detectFrameworks" /\ html \in {"", "remix"} /\ headers \in RepeatHeaders
     \/ call = "detectAnalytics" /\ html \in {" ", "Mixpanel"} /\ headers = None
  /\ htmlPass = << >> /\ headerPass = << >> /\ result = None
  /\ \E url \in EnvelopeUrls, timeout \in {None, Some(2500)}, site \in EnvelopeSites :
       fp = [c \in Calls |-> IF c = 1 THEN Called(url, timeout, site) ELSE IdleCall]

NextEnvelopes ==
  \/ DetectFrameworks
  \/ DetectAnalytics
  \/ \E c \in Calls : FingerprintStep(c)

SpecEnvelopes == InitEnvelopes /\ [][NextEnvelopes]_vars

\* ---- the transports ----
\* lastIndex after a detector was called with whatever the request holds
LastIndexAfterFrameworksOf(value, object) ==
  IF Falsy(value) THEN LastIndexAfterFrameworks("", object)
  ELSE IF value.t = "string" THEN LastIndexAfterFrameworks(value.s, object)
  ELSE lastIndex

LastIndexAfterAnalyticsOf(value) ==
  IF Falsy(value) \/ value.t # "string" THEN lastIndex
  ELSE LastIndexAfterAnalytics(value.s)

LastIndexAfterDispatch(request) ==
  IF request.method # JsString("tools/call") THEN lastIndex
  ELSE CASE request.params.name = JsString("detect_frameworks") ->
              LastIndexAfterFrameworksOf(request.params.arguments.html,
                                         request.params.arguments.headers)
         [] request.params.name = JsString("detect_analytics") ->
              LastIndexAfterAnalyticsOf(request.params.arguments.html)
         [] OTHER -> lastIndex

LastIndexAfterRoute(method, target, payload) ==
  IF method # "POST" \/ payload.kind # "object" THEN lastIndex
  ELSE CASE Pathname(target) = "/mcp" /\ payload.value.jsonrpc = JsString("2.0") ->
              LastIndexAfterDispatch(payload.value)
         [] Pathname(target) = "/api/frameworks" /\ ~Falsy(payload.value.html) ->
              LastIndexAfterFrameworksOf(payload.value.html, payload.value.headers)
         [] Pathname(target) = "/api/analytics" /\ ~Falsy(payload.value.html) ->
              LastIndexAfterAnalyticsOf(payload.value.html)
         [] OTHER -> lastIndex

\* the handler of request r reaches `await fingerprint(url, timeout)`
AwaitFingerprint(r) ==
  LET arguments == FingerprintArguments(rq[r].payload)
  IN  /\ fp' = [fp EXCEPT ![r].pc = "called", ![r].url = arguments.url,
                          ![r].timeout = arguments.timeout]
      /\ rq' = [rq EXCEPT ![r].pc = "awaiting"]
      /\ UNCHANGED <<transport, alive, calledTool, lastIndex>>

\* what handleJsonRpcRequest returned, where /mcp got as far as calling it
McpResponse(method, target, payload, called) ==
  IF /\ method = "POST" /\ Pathname(target) = "/mcp" /\ payload.kind = "object"
     /\ payload.value.jsonrpc = JsString("2.0")
  THEN Some(handleJsonRpcRequest(payload.value, called))
  ELSE None

\* the 'request' listener of the HTTP server, up to its response or to
\* the await of fingerprint. new URL(req.url, base) stands outside the try
\* block: when it throws, the listener's promise rejects with nobody to
\* handle it, no response is written, and the runtime ends the process or
\* not as it was started
HttpServe(r) ==
  /\ transport = "http" /\ alive
  /\ rq[r].pc = "arrived"
  /\ LET q == rq[r]
     IN  IF ~TargetParses(q.target)
         THEN /\ rq' = [rq EXCEPT ![r].pc = "rejected"]
              /\ alive' \in BOOLEAN
              /\ UNCHANGED <<transport, calledTool, lastIndex, fp>>
         ELSE IF RouteCallsFingerprint(q.method, q.target, q.payload)
         THEN AwaitFingerprint(r)
         ELSE /\ calledTool' = [calledTool EXCEPT ![r] =
                   IF RouteCallsDetector(q.method, q.target, q.payload)
                   THEN LET tool == RouteTool(q.target, q.payload)
                        IN  CallTool(tool.name, tool.arguments)
                   ELSE NotCalled]
              /\ rq' = [rq EXCEPT
                   ![r].pc = "done",
                   ![r].response = McpResponse(q.method, q.target, q.payload, calledTool'[r]),
                   ![r].replies = Append(@, Route(q.method, q.target, q.payload, calledTool'[r]))]
              /\ lastIndex' = LastIndexAfterRoute(q.method, q.target, q.payload)
              /\ UNCHANGED <<transport, alive, fp>>
  /\ UNCHANGED <<detectVars, confidenceVars, evidenceVars, dedupVars, history>>

\* the listener goes on once fingerprint has resolved
HttpResume(r) ==
  /\ transport = "http" /\ alive
  /\ rq[r].pc = "awaiting" /\ fp[r].pc = "returned"
  /\ calledTool' = [calledTool EXCEPT ![r] = Fingerprinted(fp[r].result[1])]
  /\ LET q == rq[r]
     IN  rq' = [rq EXCEPT
           ![r].pc = "done",
           ![r].response = McpResponse(q.method, q.target, q.payload, calledTool'[r]),
           ![r].replies = Append(@, Route(q.method, q.target, q.payload, calledTool'[r]))]
  /\ UNCHANGED <<detectVars, confidenceVars, evidenceVars, dedupVars, catalogVars, fp, transport, alive>>

\* what handleRequest returned, where the line got as far as calling it
LineResponse(payload, called) ==
  IF payload.kind = "object" THEN Some(handleRequest(payload.value, called))
  ELSE None

\* the 'line' listener of the stdio transport, up to what it writes or to
\* the await of fingerprint; readline emits the lines in the order read
StdioServe(r) ==
  /\ transport = "stdio" /\ alive
  /\ rq[r].pc = "arrived"
  /\ \A earlier \in 1..(r - 1) : rq[earlier].pc # "arrived"
  /\ LET q == rq[r]
     IN  IF LineCallsFingerprint(q.payload)
         THEN AwaitFingerprint(r)
         ELSE /\ calledTool' = [calledTool EXCEPT ![r] =
                   IF LineCallsDetector(q.payload)
                   THEN LET tool == LineTool(q.payload)
                        IN  CallTool(tool.name, tool.arguments)
                   ELSE NotCalled]
              /\ rq' = [rq EXCEPT
                   ![r].pc = "done",
                   ![r].response = LineResponse(q.payload, calledTool'[r]),
                   ![r].replies = @ \o OnLine(q.payload, calledTool'[r])]
              /\ lastIndex' = IF q.payload.kind = "object"
                              THEN LastIndexAfterDispatch(q.payload.value)
                              ELSE lastIndex
              /\ UNCHANGED <<transport, alive, fp>>
  /\ UNCHANGED <<detectVars, confidenceVars, evidenceVars, dedupVars, history>>

StdioResume(r) ==
  /\ transport = "stdio" /\ alive
  /\ rq[r].pc = "awaiting" /\ fp[r].pc = "returned"
  /\ calledTool' = [calledTool EXCEPT ![r] = Fingerprinted(fp[r].result[1])]
  /\ LET q == rq[r]
     IN  rq' = [rq EXCEPT
           ![r].pc = "done",
           ![r].response = LineResponse(q.payload, calledTool'[r]),
           ![r].replies = @ \o OnLine(q.payload, calledTool'[r])]
  /\ UNCHANGED <<detectVars, confidenceVars, evidenceVars, dedupVars, catalogVars, fp, transport, alive>>


\* a dead process runs nothing
ServerFingerprintStep(c) == alive /\ FingerprintStep(c)

\* the requests tried. A JSON-RPC request of every kind the dispatch tells
\* apart, with arguments present, missing and of the wrong type
ExpressHeaders == Some(<< <<"X-Powered-By", "Express">> >>)
ToolsCallRequest(id, name, arguments) ==
  JsonRpcRequest(id, JsString("tools/call"), Params(JsString(name), arguments))

JsonRpcBodies ==
  { JsonRpcRequest(JsNumber("1"), JsString("initialize"), NoParams),
    JsonRpcRequest(JsString("a"), JsString("tools/list"), NoParams),
    JsonRpcRequest(Undefined, JsString("notifications/initialized"), NoParams),
    JsonRpcRequest(JsNumber("2"), JsString("resources/list"), NoParams),
    JsonRpcRequest(JsNumber("3"), JsString("tools/call"), NoParams),
    ToolsCallRequest(JsNumber("4"), "whois", NoArguments),
    ToolsCallRequest(JsNumber("5"), "detect_frameworks",
                     Arguments(Undefined, None, JsString("remix"), ExpressHeaders)),
    ToolsCallRequest(JsNumber("6"), "detect_frameworks",
                     Arguments(Undefined, None, Undefined, ExpressHeaders)),
    ToolsCallRequest(JsNumber("7"), "detect_frameworks",
                     Arguments(Undefined, None, JsString("  "), None)),
    ToolsCallRequest(JsNumber("8"), "detect_frameworks",
                     Arguments(Undefined, None, JsNumber("123"), None)),
    ToolsCallRequest(JsNumber("9"), "detect_analytics",
                     Arguments(Undefined, None, JsString("GTM-AB1"), None)),
    ToolsCallRequest(JsNumber("10"), "detect_analytics", NoArguments),
    ToolsCallRequest(JsNumber("11"), "fingerprint",
                     Arguments(JsString("example.com"), Some(2500), Undefined, None)),
    ToolsCallRequest(JsNumber("12"), "fingerprint", NoArguments),
    ToolsCallRequest(JsNumber("13"), "fingerprint",
                     Arguments(JsString("exa mple.com"), None, Undefined, None)),
    Body(JsString("1.0"), JsNumber("7"), JsString("tools/list"), NoParams, NoArguments),
    Body(JsString("1.0"), Undefined, JsString("tools/list"), NoParams, NoArguments),
    Body(JsString("2.0"), JsNumber("14"), Undefined, NoParams, NoArguments),
    EmptyObject }

Payloads == {Blank, Unparseable, JsonNull} \cup { Json(b) : b \in JsonRpcBodies }

RestBody(arguments) == Json(Body(Undefined, Undefined, Undefined, NoParams, arguments))

HttpRequests ==
  { HttpRequest("POST", "/mcp", payload) : payload \in Payloads }
    \cup { HttpRequest("POST", "/api/fingerprint", payload) :
             payload \in { Unparseable, JsonNull, RestBody(NoArguments),
                           RestBody(Arguments(JsString("example.com"), None, Undefined, None)),
                           RestBody(Arguments(JsString("exa mple.com"), None, Undefined, None)) } }
    \cup { HttpRequest("POST", "/api/frameworks", payload) :
             payload \in { Unparseable, RestBody(NoArguments),
                           RestBody(Arguments(Undefined, None, JsString("remix"), ExpressHeaders)),
                           RestBody(Arguments(Undefined, None, JsString(""), ExpressHeaders)),
                           RestBody(Arguments(Undefined, None, JsString("  "), ExpressHeaders)),
                           RestBody(Arguments(Undefined, None, JsNumber("123"), None)) } }
    \cup { HttpRequest("POST", "/api/analytics", payload) :
             payload \in { JsonNull, RestBody(NoArguments),
                           RestBody(Arguments(Undefined, None, JsString("GTM-AB1"), None)),
                           RestBody(Arguments(Undefined, None, JsString(" "), None)) } }
    \cup { HttpRequest("GET", target, Blank) :
             target \in Paths \cup {"/health?probe=1", "/", "/mcp/", "//"} }
    \cup { HttpRequest("POST", "/health", Blank), HttpRequest("DELETE", "/nowhere", Blank) }

Lines == { Line(payload) : payload \in Payloads }

\* the requests sent along with the one under study
LaterPayloads ==
  { Unparseable,
    Json(ToolsCallRequest(JsNumber("5"), "detect_frameworks",
                          Arguments(Undefined, None, JsString("remix"), ExpressHeaders))),
    Json(ToolsCallRequest(JsNumber("11"), "fingerprint",
                          Arguments(JsString("example.com"), Some(2500), Undefined, None))) }

Requests(t) == IF t = "http" THEN HttpRequests ELSE Lines
LaterRequests(t) ==
  IF t = "http"
  THEN { HttpRequest("POST", "/mcp", payload) : payload \in LaterPayloads }
         \cup { HttpRequest("GET", "//", Blank) }
  ELSE { Line(payload) : payload \in LaterPayloads }

ServerSites ==
  { Unreachable, Responds(200, "OK", << >>, None),
    Responds(200, "OK", << <<"x-powered-by", "Express">> >>, Some("remix GTM-AB1")) }

\* the request, once served, awaits fingerprint
WillFingerprint(t, q) ==
  IF t = "http" THEN TargetParses(q.target)
                       /\ RouteCallsFingerprint(q.method, q.target, q.payload)
  ELSE LineCallsFingerprint(q.payload)

InitServer ==
  /\ NoDetect /\ NoConfidence /\ NoEvidence /\ NoDedup /\ FreshCatalog
  /\ alive = TRUE
  /\ calledTool = [r \in Calls |-> NotCalled]
  /\ transport \in {"http", "stdio"}
  /\ \E first \in Requests(transport),
        later \in [Calls \ {1} -> LaterRequests(transport)] :
       rq = [r \in Calls |-> IF r = 1 THEN first ELSE later[r]]
  /\ \E sites \in [Calls -> ServerSites] :
       fp = [c \in Calls |->
               [IdleCall EXCEPT !.site = IF WillFingerprint(transport, rq[c])
                                         THEN sites[c] ELSE Unreachable]]

NextServer ==
  \E r \in Calls :
    \/ HttpServe(r)
    \/ HttpResume(r)
    \/ StdioServe(r)
    \/ StdioResume(r)
    \/ ServerFingerprintStep(r)

SpecServer == InitServer /\ [][NextServer]_vars

\* ---- the stdio transport alone ----
InitStdio == InitServer /\ transport = "stdio"

NextStdio ==
  \E r \in Calls :
    \/ StdioServe(r)
    \/ StdioResume(r)
    \/ ServerFingerprintStep(r)

\* the event loop runs every listener and continuation that is ready, and
\* a fetch in flight settles: by itself, or by the abort of its timer
SpecStdioFair ==
  /\ InitStdio /\ [][NextStdio]_vars
  /\ \A r \in Calls :
       /\ WF_vars(StdioServe(r)) /\ WF_vars(StdioResume(r))
       /\ WF_vars(ServerFingerprintStep(r))

(***************************************************************************)
(* Properties.                                                             *)
(***************************************************************************)
Returned(c) == pc = "returned" /\ call = c
Detected == result[1].data.detected
Warnings == result[1].meta.warnings

\* low < medium < high
Rank(c) == CASE c = "high" -> 3 [] c = "medium" -> 2 [] c = "low" -> 1

Max(S) == CHOOSE x \in S : \A y \in S : y <= x

NoDuplicateNames(list) ==
  \A i, j \in 1..Len(list) : i # j => list[i].name # list[j].name

IsBlank(h) == \A k \in 1..Len(h) : CharAt(h, k) \in WhiteSpace

\* what a call was given for the header of signature n: the entries whose
\* key is that header name in any letter case, the last of them standing
SuppliedAt(n) ==
  IF headers = None THEN {}
  ELSE { k \in 1..Len(headers[1]) :
           ToLowerCase(headers[1][k][1]) = ToLowerCase(headerSignatures[n].header) }
SuppliedValue(n) == headers[1][Max(SuppliedAt(n))][2]
MatchingRules(n) ==
  { k \in 1..Len(headerSignatures[n].patterns) :
      matchesPattern(SuppliedValue(n), headerSignatures[n].patterns[k].pattern) }
Emits(n) == SuppliedAt(n) # {} /\ MatchingRules(n) # {}
HeaderEvidence(n) ==
  Some(ToLowerCase(headerSignatures[n].header) \o ": " \o SuppliedValue(n))
FromHeader(e) ==
  \E n \in 1..Len(headerSignatures) : SuppliedAt(n) # {} /\ e.evidence = HeaderEvidence(n)

\* C1: the list detectFrameworks returns holds no two entries of the same
\* name, also when a content signature and header signatures produced the
\* same technology.
C1_UniqueNames == Returned("detectFrameworks") => NoDuplicateNames(Detected)

C1_Witness ==
  /\ Returned("detectFrameworks")
  /\ \E i \in 1..Len(htmlPass), j \in 1..Len(headerPass) :
       htmlPass[i].name = headerPass[j].name

\* C2: for every name that occurs more than once in its input,
\* deduplicateTechnologies keeps one input entry of that name, of the best
\* confidence among them; when several entries share that confidence and
\* one of them carries a version, the kept entry carries a version.
EntriesOf(name) == { k \in 1..Len(technologies) : technologies[k].name = name }
BestRank(name) == Max({ Rank(technologies[k].confidence) : k \in EntriesOf(name) })
BestOf(name) ==
  { k \in EntriesOf(name) : Rank(technologies[k].confidence) = BestRank(name) }

C2_KeepsBest ==
  deduped # None =>
    \A name \in { technologies[k].name : k \in 1..Len(technologies) } :
      Cardinality(EntriesOf(name)) > 1 =>
        LET kept == { i \in 1..Len(deduped[1]) : deduped[1][i].name = name }
        IN  /\ kept # {}
            /\ \A i \in kept :
                 /\ \E k \in EntriesOf(name) : technologies[k] = deduped[1][i]
                 /\ Rank(deduped[1][i].confidence) = BestRank(name)
                 /\ (/\ Cardinality(BestOf(name)) > 1
                     /\ \E k \in BestOf(name) : technologies[k].version # None)
                    => deduped[1][i].version # None

C2_Witness ==
  /\ deduped # None
  /\ \E name \in { technologies[k].name : k \in 1..Len(technologies) } :
       \E j, k \in BestOf(name) :
         /\ j < k /\ j = Min(BestOf(name))
         /\ technologies[j].version = None
         /\ technologies[k].version # None

\* C3: in the list detectFrameworks returns every high entry precedes every
\* medium entry, which precedes every low entry, and entries of equal
\* confidence stand in the order in which their names first appeared
\* (content signatures, then header signatures), also when a later
\* duplicate replaced the first entry of its name.
Combined == htmlPass \o headerPass
FirstAppearance(name) == Min({ k \in 1..Len(Combined) : Combined[k].name = name })
ContentIndex(e) ==
  CHOOSE n \in 1..Len(frameworkSignatures) : frameworkSignatures[n].name = e.name
HeaderIndex(e) ==
  CHOOSE n \in 1..Len(headerSignatures) :
    SuppliedAt(n) # {} /\ e.evidence = HeaderEvidence(n)

C3_Order ==
  Returned("detectFrameworks") =>
    /\ \A i, j \in 1..Len(Detected) :
         i < j =>
           /\ Rank(Detected[i].confidence) >= Rank(Detected[j].confidence)
           /\ Detected[i].confidence = Detected[j].confidence
                => FirstAppearance(Detected[i].name) < FirstAppearance(Detected[j].name)
    /\ \A i, j \in 1..Len(htmlPass) :
         i < j => ContentIndex(htmlPass[i]) < ContentIndex(htmlPass[j])
    /\ \A i, j \in 1..Len(headerPass) :
         i < j => HeaderIndex(headerPass[i]) < HeaderIndex(headerPass[j])

C3_Witness ==
  /\ Returned("detectFrameworks")
  /\ \E i, k \in 1..Len(htmlPass), j \in 1..Len(headerPass) :
       /\ i < k
       /\ htmlPass[i].name = headerPass[j].name
       /\ htmlPass[i].confidence # "high"
       /\ htmlPass[k].confidence = "high"

\* C4: for 1 <= matchCount <= totalPatterns, calculateConfidence returns
\* high iff 2*matchCount >= totalPatterns or matchCount >= 3, otherwise
\* medium iff 4*matchCount >= totalPatterns or matchCount >= 2, otherwise low.
C4_Thresholds ==
  confidence # None =>
    LET high == 2 * matchCount >= totalPatterns \/ matchCount >= 3
        medium == ~high /\ (4 * matchCount >= totalPatterns \/ matchCount >= 2)
    IN  /\ confidence[1] = "high" <=> high
        /\ confidence[1] = "medium" <=> medium
        /\ confidence[1] = "low" <=> (~high /\ ~medium)

C4_Witness ==
  /\ confidence = Some("medium")
  /\ 4 * matchCount < totalPatterns

\* C5: for a fixed totalPatterns, a call with at least as many matches as
\* the call before it returns at least as good a tier.
C5_Monotone ==
  (lastConfidence # None /\ lastCount <= matchCount)
    => Rank(lastConfidence[1]) <= Rank(confidence[1])

C5_Witness ==
  /\ lastConfidence # None
  /\ lastCount < matchCount
  /\ Rank(lastConfidence[1]) < Rank(confidence[1])

\* C6: every technology of the header pass has confidence high, no
\* version, and the evidence "<header name of the signature, lower case>:
\* <header value>"; every entry of the returned list that carries such
\* evidence has confidence high and no version.
C6_HeaderEntries ==
  Returned("detectFrameworks") =>
    /\ \A j \in 1..Len(headerPass) :
         /\ headerPass[j].confidence = "high"
         /\ headerPass[j].version = None
         /\ FromHeader(headerPass[j])
    /\ \A i \in 1..Len(Detected) :
         FromHeader(Detected[i])
           => Detected[i].confidence = "high" /\ Detected[i].version = None

C6_Witness ==
  /\ Returned("detectFrameworks")
  /\ \E i \in 1..Len(Detected), k \in 1..Len(htmlPass) :
       /\ FromHeader(Detected[i])
       /\ htmlPass[k].name = Detected[i].name
       /\ htmlPass[k].version # None

\* C7: the header pass emits exactly one technology for a header signature
\* whose header was supplied (in any letter case) with a value some rule
\* matches, namely that of the first matching rule in declared order, and
\* none for any other signature.
C7_FirstRuleWins ==
  Returned("detectFrameworks") =>
    /\ Len(headerPass) = Cardinality({ n \in 1..Len(headerSignatures) : Emits(n) })
    /\ \A n \in 1..Len(headerSignatures) :
         Emits(n) =>
           LET from == { j \in 1..Len(headerPass) : headerPass[j].evidence = HeaderEvidence(n) }
               rule == headerSignatures[n].patterns[Min(MatchingRules(n))]
           IN  /\ Cardinality(from) = 1
               /\ \A j \in from : /\ headerPass[j].name = rule.technology
                                  /\ headerPass[j].category = rule.category

C7_Witness ==
  /\ Returned("detectFrameworks")
  /\ \E n \in 1..Len(headerSignatures) :
       /\ Emits(n)
       /\ Cardinality(MatchingRules(n)) >= 2
       /\ headers[1][Max(SuppliedAt(n))][1] # headerSignatures[n].header
       /\ \E j \in 1..Len(headerPass) : headerPass[j].evidence = HeaderEvidence(n)

\* C8: for an empty or whitespace-only html both detectors return ok: true
\* with the single warning 'Empty HTML content provided'; detectAnalytics
\* returns nothing; detectFrameworks runs no content detection and returns
\* what the headers give.
C8_EmptyHtml ==
  (pc = "returned" /\ IsBlank(html)) =>
    /\ result[1].ok = TRUE
    /\ Warnings = <<"Empty HTML content provided">>
    /\ call = "detectAnalytics" => Detected = << >>
    /\ call = "detectFrameworks" =>
         /\ htmlPass = << >>
         /\ \A i \in 1..Len(Detected) : FromHeader(Detected[i])
         /\ \A n \in 1..Len(headerSignatures) :
              Emits(n) =>
                \E i \in 1..Len(Detected) :
                  Detected[i].name
                    = headerSignatures[n].patterns[Min(MatchingRules(n))].technology

C8_Witness ==
  /\ Returned("detectFrameworks")
  /\ IsBlank(html) /\ html # ""
  /\ Detected # << >>

\* C9: the list detectAnalytics returns holds each name at most once,
\* however many matchers of a signature match and however often.
C9_UniqueAnalytics == Returned("detectAnalytics") => NoDuplicateNames(Detected)

C9_Witness ==
  /\ Returned("detectAnalytics")
  /\ \E n \in 1..Len(analyticsSignatures) :
       /\ Cardinality({ k \in 1..Len(analyticsSignatures[n].patterns) :
                          matchesPattern(html, analyticsSignatures[n].patterns[k]) }) >= 2
       /\ \E i \in 1..Len(Detected) : Detected[i].name = analyticsSignatures[n].name

\* C10: for an html that is not empty, detectAnalytics returns an entry for
\* exactly the signatures of which a matcher matches html or its lower-cased
\* copy, in catalog order, each with the name and type of its signature.
MatcherHits(signature) ==
  \E k \in 1..Len(signature.patterns) :
    \/ matchesPattern(html, signature.patterns[k])
    \/ matchesPattern(ToLowerCase(html), signature.patterns[k])

C10_AnalyticsIff ==
  (Returned("detectAnalytics") /\ html # "") =>
    LET expected == SelectSeq(analyticsSignatures, MatcherHits)
    IN  /\ Len(Detected) = Len(expected)
        /\ \A i \in 1..Len(expected) :
             /\ Detected[i].name = expected[i].name
             /\ Detected[i].type = expected[i].type

C10_Witness ==
  /\ Returned("detectAnalytics")
  /\ html # ""
  /\ Len(Detected) >= 2
  /\ \E i, j \in 1..Len(Detected) :
       Detected[i].evidence = None /\ Detected[j].evidence # None


\* C11: detectFrameworks and detectAnalytics are deterministic: two calls
\* with the same html and headers, whatever was called before or between
\* them, return the same ordered detected list and the same warnings.
C11_Deterministic ==
  \A i, j \in 1..Len(history) :
    (/\ history[i].call = history[j].call
     /\ history[i].html = history[j].html
     /\ history[i].headers = history[j].headers)
    => /\ history[i].detected = history[j].detected
       /\ history[i].warnings = history[j].warnings

\* a call repeated after a different call ran in between, both finding
\* something
C11_Witness ==
  /\ Len(history) = 3
  /\ history[1].call = history[3].call
  /\ history[1].html = history[3].html
  /\ history[1].headers = history[3].headers
  /\ history[2].call # history[1].call
  /\ history[1].detected # << >>
  /\ history[2].detected # << >>

\* C12: deduplication is idempotent: deduplicateTechnologies applied to a
\* list it returned gives back that list, same entries in the same order.
C12_Idempotent == again # None => again = deduped

\* a list with a duplicate name went in, so the first call dropped an entry
C12_Witness ==
  /\ again # None
  /\ Len(deduped[1]) >= 2
  /\ Len(deduped[1]) < Len(technologies)

\* what call c of fingerprint, about to return, returns when no other call
\* runs: decided by its url, its timeout, the site it fetches and whether
\* its own timer has gone off
Alone(c) ==
  LET n == normalizeUrl(fp[c].url)
      site == fp[c].site
  IN  IF n.threw THEN createErrorResponse(n.value, fp[c].url)
      ELSE IF fp[c].timer = "fired"
           THEN FetchFailed(AbortError, fp[c].timeout, n.value)
      ELSE IF site.kind = "rejects"
           THEN FetchFailed(NetworkError, fp[c].timeout, n.value)
      ELSE IF ~ResponseOk(site)
           THEN FetchFailed(HttpError(site), fp[c].timeout, n.value)
      ELSE IF site.body = None
           THEN FetchFailed(BodyError, fp[c].timeout, n.value)
      ELSE Analyze(site.body[1], headersToObject(site.headers), n.value)

\* C13: no call of detectFrameworks, detectAnalytics or fingerprint changes
\* the catalog (the lastIndex of its expressions), the caller's headers or
\* another call; so in every interleaving each call returns what it
\* returns when run alone, and what a call returned stays as it is.
C13_Isolated ==
  [][ /\ lastIndex' = lastIndex
      /\ headers' = headers
      /\ (pc = "called" /\ pc' = "returned")
           => result' = Some(IF call = "detectFrameworks"
                             THEN detectFrameworks(html, headers)
                             ELSE detectAnalytics(html))
      /\ \A c \in Calls :
           /\ (fp[c].pc # "returned" /\ fp'[c].pc = "returned")
                => fp'[c].result = Some(Alone(c))
           /\ fp[c].pc = "returned" => fp'[c] = fp[c]
    ]_vars

\* two calls suspended together, one at its body with its signal clear
\* while the timer of the other has gone off, and a detector call done
C13_Witness ==
  /\ pc = "returned"
  /\ \E c, d \in Calls :
       /\ c # d
       /\ fp[c].pc = "fetching" /\ fp[c].aborted
       /\ fp[d].pc = "reading" /\ ~fp[d].aborted

FetchFailureOutcomes == {"rejected", "status", "aborted", "body"}

\* C14: when the fetch fails (network error, status outside 2xx, timeout)
\* fingerprint returns ok: false with exactly one warning and empty
\* technologies, analytics and headers, no detector having been invoked;
\* for a status outside 2xx the warning holds the status code.
C14_FetchFailure ==
  \A c \in Calls :
    (fp[c].pc = "returned" /\ fp[c].outcome \in FetchFailureOutcomes)
    => LET r == fp[c].result[1]
       IN  /\ ~r.ok
           /\ Len(r.meta.warnings) = 1
           /\ r.data.technologies = << >>
           /\ r.data.analytics = << >>
           /\ r.data.headers = << >>
           /\ ~fp[c].invoked
           /\ fp[c].outcome = "status"
                => Includes(r.meta.warnings[1], NumberToString(fp[c].site.status))

\* a site that answered 404 with headers of its own
C14_Witness ==
  \E c \in Calls :
    /\ fp[c].pc = "returned" /\ fp[c].outcome = "status"
    /\ fp[c].site.status = 404 /\ fp[c].site.headers # << >>

\* C15: when the timer of a call goes off before the response has
\* completed (headers and body), the request is aborted and fingerprint
\* returns, ok: false, with a single warning that holds "timeout" and the
\* timeout in force: the one given, or the configured default.
C15_Timeout ==
  /\ [](\A c \in Calls :
          fp[c].timer = "fired"
          => /\ fp[c].aborted
             /\ fp[c].pc = "returned"
                  => LET r == fp[c].result[1]
                     IN  /\ ~r.ok
                         /\ Len(r.meta.warnings) = 1
                         /\ Includes(r.meta.warnings[1], "timeout")
                         /\ Includes(r.meta.warnings[1],
                                     NumberToString(TimeoutOr(fp[c].timeout))))
  /\ \A c \in Calls : (fp[c].timer = "fired") ~> (fp[c].pc = "returned")

\* the timer went off while the body was being read, no timeout given
C15_Witness ==
  \E c \in Calls :
    /\ fp[c].pc = "returned" /\ fp[c].outcome = "aborted"
    /\ fp[c].timeout = None
    /\ fp[c].site.kind = "responds" /\ ResponseOk(fp[c].site)

SchemeChars == UpperSet \cup LowerSet \cup DigitSet \cup {"+", "-", "."}

\* u begins with a scheme and "://"
HasScheme(u) ==
  \E k \in 2..Len(u) :
    /\ k + 2 <= Len(u) /\ SubSeq(u, k, k + 2) = "://"
    /\ CharAt(u, 1) \in UpperSet \cup LowerSet
    /\ \A j \in 1..(k - 1) : CharAt(u, j) \in SchemeChars

\* C16: fingerprint normalizes its url before fetching: a url without a
\* scheme gets "https://" in front, a url with a scheme is left as it is,
\* a url that still does not parse is rejected with ok: false and nothing
\* is fetched; on success data.url and meta.source are the normalized url.
C16_Normalized ==
  \A c \in Calls :
    fp[c].url.t = "string"
    => LET u == fp[c].url.s
           expected == IF HasScheme(u) THEN u ELSE "https://" \o u
       IN  /\ fp[c].fetchUrl # None => fp[c].fetchUrl = Some(expected)
           /\ fp[c].outcome = "invalid"
                => fp[c].fetchUrl = None /\ ~fp[c].result[1].ok
           /\ fp[c].outcome = "ok"
                => /\ fp[c].result[1].data.url = JsString(expected)
                   /\ fp[c].result[1].meta.source = JsString(expected)

\* C17: on a successful fetch fingerprint returns ok: true, technologies
\* the list of detectFrameworks(html, headers), analytics the list of
\* detectAnalytics(html), and as warnings those of detectFrameworks
\* followed by those of detectAnalytics: an empty body gives the
\* empty-HTML warning twice.
C17_Success ==
  \A c \in Calls :
    fp[c].outcome = "ok"
    => LET r == fp[c].result[1]
           body == fp[c].site.body[1]
           frameworksResult == detectFrameworks(body, Some(headersToObject(fp[c].site.headers)))
           analyticsResult == detectAnalytics(body)
       IN  /\ r.ok
           /\ r.data.technologies = frameworksResult.data.detected
           /\ r.data.analytics = analyticsResult.data.detected
           /\ r.meta.warnings
                = frameworksResult.meta.warnings \o analyticsResult.meta.warnings
           /\ IsEmptyHtml(body)
                => r.meta.warnings = <<EmptyHtmlWarning, EmptyHtmlWarning>>

\* an empty body fetched from a site whose headers give technologies
C17_Witness ==
  \E c \in Calls :
    /\ fp[c].outcome = "ok"
    /\ fp[c].site.body = Some("")
    /\ fp[c].result[1].data.technologies # << >>

\* ---- the dispatch handler ----
Answered(r) == rq[r].response # None
IsResult(response) == "result" \in DOMAIN response
IsError(response, code) == "error" \in DOMAIN response /\ response.error.code = code
KnownMethods ==
  {JsString("initialize"), JsString("tools/list"), JsString("tools/call")}
    \cup (IF transport = "stdio" THEN {JsString("notifications/initialized")} ELSE {})

\* the envelope the tool of a tools/call request comes back with
ToolEnvelope(r) ==
  LET params == rq[r].payload.value.params
      text == IF params.arguments.html.t = "string" THEN params.arguments.html.s ELSE ""
  IN  CASE params.name = JsString("fingerprint") -> fp[r].result[1]
        [] params.name = JsString("detect_frameworks") ->
             detectFrameworks(text, params.arguments.headers)
        [] params.name = JsString("detect_analytics") -> detectAnalytics(text)

\* html.trim() is reached and html has no such method
ToolThrows(request) ==
  /\ request.params.name \in {JsString("detect_frameworks"), JsString("detect_analytics")}
  /\ ~Falsy(request.params.arguments.html)
  /\ request.params.arguments.html.t # "string"

OneTextItem(r, response) ==
  /\ IsResult(response)
  /\ DOMAIN response.result = {"content"}
  /\ Len(response.result.content) = 1
  /\ response.result.content[1].type = "text"
  /\ response.result.content[1].text = Stringify(ToolEnvelope(r))

\* what the claim says of every request but a tools/call of a known tool
DispatchElsewhere(request, response) ==
  /\ response.jsonrpc = "2.0"
  /\ response.id = request.id
  /\ request.method \in {JsString("initialize"), JsString("tools/list")}
       => IsResult(response)
  /\ request.method = JsString("tools/call") /\ ~KnownTool(request.params.name)
       => /\ IsError(response, -32601)
          /\ Includes(response.error.message, TemplateString(request.params.name))
  /\ request.method \notin KnownMethods
       => /\ IsError(response, -32601)
          /\ Includes(response.error.message, TemplateString(request.method))

ToProtocol(q) ==
  \/ transport = "stdio" /\ q.payload.kind # "blank"
  \/ transport = "http" /\ q.method = "POST" /\ TargetParses(q.target)
       /\ Pathname(q.target) = "/mcp"

\* its body is not JSON, or is JSON and not a JSON-RPC 2.0 request
Malformed(payload) ==
  \/ payload.kind \in {"blank", "unparseable", "null"}
  \/ payload.kind = "object" /\ payload.value.jsonrpc # JsString("2.0")

ReplyData(reply) ==
  IF "body" \in DOMAIN reply THEN reply.body.json ELSE reply.json

IsJsonRpcError(data) ==
  /\ {"jsonrpc", "id", "error"} \subseteq DOMAIN data
  /\ data.error.code \in Int

\* C19 as stated: on both transports a malformed request body (text that
\* does not parse, or a value that is no JSON-RPC 2.0 request) is answered
\* with a JSON-RPC error object carrying a numeric code, and the process
\* goes on serving.
C19_Malformed ==
  [][\A r \in Calls :
       (/\ rq[r].pc # "done" /\ rq'[r].pc = "done"
        /\ ToProtocol(rq[r]) /\ Malformed(rq[r].payload))
         => /\ Len(rq'[r].replies) = 1
            /\ IsJsonRpcError(ReplyData(rq'[r].replies[1]))
            /\ alive']_vars

\* ---- missing arguments and malformed urls ----
\* the tool the request reaches and the arguments it hands it, None when
\* it reaches no tool
ToolReached(q) ==
  LET object == q.payload.value
      called == object.method = JsString("tools/call") /\ KnownTool(object.params.name)
  IN  IF q.payload.kind # "object" THEN None
      ELSE IF transport = "stdio"
      THEN IF called THEN Some([name |-> object.params.name.s,
                                arguments |-> object.params.arguments])
           ELSE None
      ELSE IF q.method # "POST" \/ ~TargetParses(q.target) THEN None
      ELSE CASE Pathname(q.target) = "/mcp" ->
                  IF called /\ object.jsonrpc = JsString("2.0")
                  THEN Some([name |-> object.params.name.s,
                             arguments |-> object.params.arguments])
                  ELSE None
             [] Pathname(q.target) = "/api/fingerprint" ->
                  Some([name |-> "fingerprint", arguments |-> object])
             [] Pathname(q.target) = "/api/frameworks" ->
                  Some([name |-> "detect_frameworks", arguments |-> object])
             [] Pathname(q.target) = "/api/analytics" ->
                  Some([name |-> "detect_analytics", arguments |-> object])
             [] OTHER -> None

\* its required argument is missing, or its url does not parse
InvalidInput(tool) ==
  IF tool.name = "fingerprint"
  THEN tool.arguments.url = Undefined \/ normalizeUrl(tool.arguments.url).threw
  ELSE tool.arguments.html = Undefined

IsFailureEnvelope(data) ==
  /\ {"ok", "data", "meta"} \subseteq DOMAIN data
  /\ ~data.ok
  /\ Len(data.meta.warnings) > 0

\* an ok: false envelope with a warning, bare or as the text of a tool
\* result, or an error object
Surfaced(data) ==
  \/ "error" \in DOMAIN data
  \/ IsFailureEnvelope(data)
  \/ /\ "result" \in DOMAIN data
     /\ "content" \in DOMAIN data.result
     /\ IsFailureEnvelope(data.result.content[1].text.json)

\* C20 as stated: a request that leaves out the required argument of the
\* tool it reaches (url for fingerprint, html for the detectors), or gives
\* a url that does not parse, through tools/call on either transport or a
\* REST endpoint, is answered with an ok: false envelope holding a warning
\* or with an error object, and the process goes on running.
C20_InvalidInput ==
  [][\A r \in Calls :
       (/\ rq[r].pc # "done" /\ rq'[r].pc = "done"
        /\ ToolReached(rq[r]) # None
        /\ InvalidInput(ToolReached(rq[r])[1]))
         => /\ Len(rq'[r].replies) = 1
            /\ Surfaced(ReplyData(rq'[r].replies[1]))
            /\ alive']_vars

\* ---- empty html through the entry points ----
\* the envelope a reply carries: bare on a REST endpoint, the text of the
\* one content item on tools/call
ReplyEnvelope(data) ==
  IF "result" \in DOMAIN data /\ "content" \in DOMAIN data.result
  THEN data.result.content[1].text.json
  ELSE data

IsEnvelope(data) == {"ok", "data", "meta"} \subseteq DOMAIN data

\* the request reaches a detector with an html that is a string, empty or
\* of white space only
EmptyHtmlSent(q) ==
  /\ ToolReached(q) # None
  /\ ToolReached(q)[1].name \in {"detect_frameworks", "detect_analytics"}
  /\ ToolReached(q)[1].arguments.html.t = "string"
  /\ IsEmptyHtml(ToolReached(q)[1].arguments.html.s)

\* C21 as stated: empty or whitespace-only html is no error through any
\* entry point that reaches the detectors (tools/call on either transport,
\* REST /api/frameworks and /api/analytics): the caller receives an ok: true
\* envelope with the empty-HTML warning, and for detect_frameworks what the
\* headers alone show is still detected.
C21_EmptyHtmlEverywhere ==
  \A r \in Calls :
    (rq[r].pc = "done" /\ EmptyHtmlSent(rq[r])) =>
      /\ Len(rq[r].replies) = 1
      /\ LET tool == ToolReached(rq[r])[1]
             envelope == ReplyEnvelope(ReplyData(rq[r].replies[1]))
         IN  /\ IsEnvelope(envelope)
             /\ envelope.ok
             /\ envelope.meta.warnings = <<EmptyHtmlWarning>>
             /\ tool.name = "detect_frameworks" =>
                  envelope.data.detected =
                    detectFrameworks("", tool.arguments.headers).data.detected

\* ---- the envelope ----
EnvelopeShape(envelope) ==
  /\ IsEnvelope(envelope)
  /\ envelope.ok \in BOOLEAN
  /\ envelope.meta.pagination.next_cursor = "null"
  /\ envelope.meta.warnings \in Seq(STRING)

\* what makes a call of fingerprint fail: its url does not validate, the
\* site cannot be reached or answers outside 2xx, its body breaks off, or
\* the timer went off
ValidationOrFetchFailed(c) ==
  \/ normalizeUrl(fp[c].url).threw
  \/ fp[c].site.kind = "rejects"
  \/ ~ResponseOk(fp[c].site)
  \/ fp[c].site.body = None
  \/ fp[c].timer = "fired"

\* C22: every envelope returned by fingerprint, detectFrameworks and
\* detectAnalytics has meta.pagination.next_cursor null and meta.warnings a
\* list; the detectors always return ok: true, and fingerprint returns
\* ok: false exactly when url validation or the fetch failed.
C22_Envelopes ==
  /\ pc = "returned" => EnvelopeShape(result[1]) /\ result[1].ok
  /\ \A c \in Calls : fp[c].pc = "returned" =>
       /\ EnvelopeShape(fp[c].result[1])
       /\ ~fp[c].result[1].ok <=> ValidationOrFetchFailed(c)

\* a detector has returned, and a call of fingerprint that was aborted
\* while its site was answering well
C22_Witness ==
  /\ pc = "returned"
  /\ \E c \in Calls :
       /\ fp[c].pc = "returned" /\ fp[c].outcome = "aborted"
       /\ fp[c].site.kind = "responds" /\ ResponseOk(fp[c].site)
       /\ ~fp[c].result[1].ok

\* ---- one dispatch for two transports ----
\* what the dispatch handler of the other transport returns for the request
ElsewhereResponse(request, called) ==
  IF transport = "stdio"
  THEN handleJsonRpcRequest(request, called)
  ELSE handleRequest(request, called)

\* C23: for the same JSON-RPC request, of any method, tool name and
\* arguments, the stdio handler and the HTTP /mcp handler produce the same
\* JSON-RPC response.
C23_OneDispatch ==
  \A r \in Calls : Answered(r) =>
    rq[r].response[1] = ElsewhereResponse(rq[r].payload.value, calledTool[r])

\* ---- evidence ----
\* the rule matches the text: a literal occurs in it, an expression has a
\* match in it
RuleMatches(content, rule) ==
  IF IsString(rule)
  THEN \E i \in 0..(Len(content) - Len(rule.lit)) :
         SubSeq(content, i + 1, i + Len(rule.lit)) = rule.lit
  ELSE Match(rule, content) # None

\* what the claim gives for the rule, known to match
EvidenceOfRule(content, rule) ==
  IF IsString(rule)
  THEN LET len == Len(rule.lit)
           n == Len(content)
           i == CHOOSE i \in 0..(n - len) :
                  /\ SubSeq(content, i + 1, i + len) = rule.lit
                  /\ \A j \in 0..(i - 1) : SubSeq(content, j + 1, j + len) # rule.lit
           from == IF i - 20 > 0 THEN i - 20 ELSE 0
           to == IF i + len + 20 < n THEN i + len + 20 ELSE n
       IN  "..." \o SubSeq(content, from + 1, to) \o "..."
  ELSE LET match == Match(rule, content)[1]
       IN  SubSeq(content, match.index + 1, match.end)

FirstMatching(content, rules) ==
  LET matching == { k \in DOMAIN rules : RuleMatches(content, rules[k]) }
  IN  IF matching = {} THEN 0
      ELSE CHOOSE k \in matching : \A other \in matching : k <= other

SignatureNamed(name) ==
  frameworkSignatures[CHOOSE n \in DOMAIN frameworkSignatures :
                        frameworkSignatures[n].name = name]

\* C24: findEvidence returns evidence for the first rule, in list order,
\* that matches the text: for a literal first occurring at index i of a text
\* of length n, "..." + text[max(0, i-20) .. min(n, i+len+20)) + "...", a
\* window that holds the literal with at most 20 characters on each side;
\* for an expression the full matched substring; undefined iff no rule
\* matches. Every entry of the HTML pass has a defined evidence, that of
\* the first matcher of its signature, in catalog order, that matches.
C24_Evidence ==
  /\ evidenceCall.pc = "returned" =>
       LET content == evidenceCall.content
           rules == evidenceCall.patterns
           k == FirstMatching(content, rules)
       IN  /\ evidenceCall.evidence = None <=> k = 0
           /\ k # 0 =>
                /\ evidenceCall.evidence = Some(EvidenceOfRule(content, rules[k]))
                /\ IsString(rules[k]) =>
                     /\ Includes(evidenceCall.evidence[1], rules[k].lit)
                     /\ Len(evidenceCall.evidence[1]) <= 3 + 20 + Len(rules[k].lit) + 20 + 3
  /\ pc = "returned" =>
       \A e \in DOMAIN htmlPass :
         LET signature == SignatureNamed(htmlPass[e].name)
             k == FirstMatching(html, signature.patterns)
         IN  /\ k # 0
             /\ htmlPass[e].evidence = Some(EvidenceOfRule(html, signature.patterns[k]))

\* the first rule does not match and the second is a literal found with
\* more than 20 characters on each side, beside an HTML pass that detected
\* a technology by a matcher that is not its signature's first
C24_Witness ==
  /\ evidenceCall.pc = "returned"
  /\ Len(evidenceCall.patterns) = 2
  /\ FirstMatching(evidenceCall.content, evidenceCall.patterns) = 2
  /\ evidenceCall.patterns[2] = Str("id=app")
  /\ Len(evidenceCall.evidence[1]) = 3 + 20 + 6 + 20 + 3
  /\ Len(evidenceCall.content) > 20 + 6 + 20
  /\ pc = "returned"
  /\ \E e \in DOMAIN htmlPass :
       FirstMatching(html, SignatureNamed(htmlPass[e].name).patterns) > 1

\* ---- the HTML pass ----
\* the matchers of the signature that match the html
MatchersMatching(content, signature) ==
  { k \in DOMAIN signature.patterns : RuleMatches(content, signature.patterns[k]) }

EntriesNamed(name) == { e \in DOMAIN htmlPass : htmlPass[e].name = name }

\* C25: in the HTML pass a signature yields an entry iff at least one of
\* its matchers matches the full html; matchCount counts the matchers that
\* match, not their occurrences, and lies in 1..number of matchers; the
\* entry's version is defined iff the signature has a version extractor
\* that matches somewhere in the full html, whichever matchers matched, and
\* is then capture group 1 of its first match.
C25_HtmlPass ==
  (pc = "returned" /\ call = "detectFrameworks" /\ ~IsEmptyHtml(html)) =>
    \A n \in DOMAIN frameworkSignatures :
      LET signature == frameworkSignatures[n]
          count == Cardinality(MatchersMatching(html, signature))
          entries == EntriesNamed(signature.name)
      IN  /\ entries # {} <=> count >= 1
          /\ Cardinality(entries) <= 1
          /\ \A e \in entries :
               /\ count \in 1..Len(signature.patterns)
               /\ htmlPass[e].confidence = calculateConfidence(count, Len(signature.patterns))
               /\ htmlPass[e].version # None <=>
                    /\ signature.versionPattern # None
                    /\ Match(signature.versionPattern[1], html) # None
               /\ htmlPass[e].version # None =>
                    LET match == Match(signature.versionPattern[1], html)[1]
                    IN  htmlPass[e].version[1] = SubSeq(html, match.cs + 1, match.ce)

\* an entry whose one matching matcher occurs twice in the html, with a
\* version that no matcher of the signature covers
C25_Witness ==
  /\ pc = "returned" /\ call = "detectFrameworks"
  /\ \E e \in DOMAIN htmlPass :
       LET signature == SignatureNamed(htmlPass[e].name)
           matching == MatchersMatching(html, signature)
       IN  /\ Cardinality(matching) = 1
           /\ htmlPass[e].version # None
           /\ \A k \in matching :
                LET match == Match(signature.patterns[k], html)[1]
                IN  /\ Match(signature.patterns[k], SubSeq(html, match.end + 1, Len(html))) # None
                    /\ ~Includes(SubSeq(html, match.index + 1, match.end), htmlPass[e].version[1])

\* ---- the lines of the stdio transport ----
IsNotification(payload) ==
  /\ payload.kind = "object" /\ payload.value.method.t = "string"
  /\ StartsWith(payload.value.method.s, "notifications/")

\* what the claim says a served line has written
LineAnswered(q) ==
  CASE q.payload.kind = "blank" -> q.replies = << >>
    [] IsNotification(q.payload) -> q.replies = << >>
    [] q.payload.kind = "unparseable" ->
         /\ Len(q.replies) = 1
         /\ IsError(ReplyData(q.replies[1]), -32700)
         /\ ReplyData(q.replies[1]).id = JsNumber("0")
    [] q.payload.kind = "object" /\ ~IsNotification(q.payload) ->
         /\ Len(q.replies) = 1
         /\ ReplyData(q.replies[1]).id = q.payload.value.id
    [] OTHER -> Len(q.replies) = 1

\* C26: on the stdio transport, whatever the lines and however the
\* handlers in flight interleave, a blank line and a notification write
\* nothing, an unparseable line writes one error line with code -32700 and
\* id 0, every other request line writes one response line carrying the
\* request's id, and every line is eventually served, whatever became of the
\* lines before it.
C26_Lines ==
  /\ [](\A r \in Calls : (transport = "stdio" /\ rq[r].pc = "done") => LineAnswered(rq[r]))
  /\ \A r \in Calls : (transport = "stdio" /\ rq[r].pc = "arrived") ~> (rq[r].pc = "done")

\* ---- fingerprint settles ----
\* C27: every call of fingerprint eventually resolves with an envelope,
\* whatever its arguments and whatever the fetch does (resolve, reject,
\* abort by the timer, failure while the body is read); the timer is
\* cleared on every way out of fetchWithTimeout, so that nothing changes
\* for a call, and no abort fires, once it has returned.
C27_Resolves ==
  /\ [](\A c \in Calls : fp[c].pc = "returned" =>
          /\ fp[c].result # None /\ IsEnvelope(fp[c].result[1])
          /\ fp[c].timer # "armed")
  /\ [][\A c \in Calls : fp[c].pc = "returned" => fp'[c] = fp[c]]_vars
  /\ \A c \in Calls : (fp[c].pc = "called") ~> (fp[c].pc = "returned")

\* a call returned the failure of its body read, with its timer cleared
C27_Witness ==
  \E c \in Calls :
    /\ fp[c].pc = "returned" /\ fp[c].outcome = "body"
    /\ fp[c].timer = "cleared"
    /\ ~fp[c].result[1].ok

\* ---- one response for every HTTP request ----
\* the required parameter of a REST endpoint
RequiredOf(path) == IF path = "/api/fingerprint" THEN "url" ELSE "html"

\* the status the claim gives the request
ClaimedStatus(q) ==
  LET path == Pathname(q.target)
      object == q.payload.value
  IN  IF path \notin Paths THEN 404
      ELSE IF q.method # (IF path = "/health" THEN "GET" ELSE "POST") THEN 405
      ELSE IF path = "/health" THEN 200
      ELSE IF q.payload.kind # "object" THEN 500
      ELSE IF path = "/mcp"
      THEN IF object.jsonrpc # JsString("2.0") THEN 400 ELSE 200
      ELSE IF object[RequiredOf(path)] = Undefined THEN 400
      ELSE IF path # "/api/fingerprint" /\ ~Falsy(object.html) /\ object.html.t # "string"
      THEN 500
      ELSE 200

\* C28: every request handled by the HTTP server receives exactly one
\* response: 404 for an unknown path, 405 for a known path with the wrong
\* method, 400 for a /mcp body whose jsonrpc is not "2.0" or a REST body
\* missing its required parameter, 500 when the body cannot be parsed or
\* the handler throws, and 200 otherwise; no path writes two responses or
\* none.
C28_OneResponse ==
  transport = "http" =>
    \A r \in Calls :
      /\ Len(rq[r].replies) <= 1
      /\ rq[r].pc \in {"done", "rejected"} =>
           /\ Len(rq[r].replies) = 1
           /\ rq[r].replies[1].status = ClaimedStatus(rq[r])

\* ---- the tiers of a content-based detection ----
\* what the claim says of a tier given to count matches out of size
TierAsClaimed(tier, count, size) ==
  /\ tier = "low" => count = 1 /\ size >= 5
  /\ tier = "medium" => \/ count = 1 /\ size \in {3, 4}
                        \/ count = 2 /\ size >= 5
  /\ size <= 2 => tier = "high"

MayBeLow == {"React", "Vue.js", "Angular"}

\* C29: a content-based detection is low only when exactly one matcher
\* matched and its signature has at least 5 matchers, medium only when one
\* matched of 3 or 4 or two matched of at least 5, and high for any match
\* of a signature with at most 2 matchers; of the shipped catalog only
\* React, Vue.js and Angular are ever reported as low.
C29_Tiers ==
  /\ confidence # None => TierAsClaimed(confidence[1], matchCount, totalPatterns)
  /\ pc = "returned" =>
       /\ \A e \in DOMAIN htmlPass :
            LET signature == SignatureNamed(htmlPass[e].name)
            IN  /\ TierAsClaimed(htmlPass[e].confidence,
                                 Cardinality(MatchersMatching(html, signature)),
                                 Len(signature.patterns))
                /\ htmlPass[e].confidence = "low" => htmlPass[e].name \in MayBeLow
       /\ \A e \in DOMAIN result[1].data.detected :
            result[1].data.detected[e].confidence = "low"
              => result[1].data.detected[e].name \in MayBeLow
  /\ \A n \in DOMAIN frameworkSignatures :
       Len(frameworkSignatures[n].patterns) >= 5 => frameworkSignatures[n].name \in MayBeLow

\* one match of 5 or more was scored low, and the HTML pass reported a
\* technology as low and another as medium
C29_Witness ==
  /\ confidence = Some("low") /\ matchCount = 1 /\ totalPatterns >= 5
  /\ pc = "returned"
  /\ \E e, other \in DOMAIN htmlPass :
       /\ htmlPass[e].confidence = "low"
       /\ htmlPass[other].confidence = "medium"

\* ---- the evidence of an analytics entry ----
AnalyticsSignatureNamed(name) ==
  analyticsSignatures[CHOOSE n \in DOMAIN analyticsSignatures :
                        analyticsSignatures[n].name = name]

\* the matcher that triggered the entry: the first of its signature that
\* matches the html or its lower-cased copy
Trigger(signature) ==
  CHOOSE k \in DOMAIN signature.patterns :
    /\ RuleMatches(html, signature.patterns[k])
         \/ RuleMatches(ToLowerCase(html), signature.patterns[k])
    /\ \A j \in 1..(k - 1) :
         /\ ~RuleMatches(html, signature.patterns[j])
         /\ ~RuleMatches(ToLowerCase(html), signature.patterns[j])

\* C30: an entry of detectAnalytics has a defined evidence iff the matcher
\* that triggered it matches the html as given, and the evidence is then
\* what that matcher matched; when the matcher matched the lower-cased copy
\* only, the entry is there without evidence, whatever the later matchers
\* of its signature would have found.
C30_AnalyticsEvidence ==
  Returned("detectAnalytics") =>
    \A i \in 1..Len(Detected) :
      LET signature == AnalyticsSignatureNamed(Detected[i].name)
          trigger == signature.patterns[Trigger(signature)]
      IN  /\ Detected[i].evidence # None <=> RuleMatches(html, trigger)
          /\ Detected[i].evidence # None =>
               Detected[i].evidence[1] = EvidenceOfRule(html, trigger)

\* an entry without evidence, though a later matcher of its signature
\* matches the html as given
C30_Witness ==
  /\ Returned("detectAnalytics")
  /\ \E i \in 1..Len(Detected) :
       LET signature == AnalyticsSignatureNamed(Detected[i].name)
       IN  /\ Detected[i].evidence = None
           /\ \E k \in DOMAIN signature.patterns :
                k > Trigger(signature) /\ RuleMatches(html, signature.patterns[k])

====
